---- MODULE Spec2Model ----
(***************************************************************************)
(* Port layer of the FreeRTOS ARM Cortex-A9 port (Source/portable/GCC/     *)
(* ARM_CA9/port.c): critical sections, the interrupt priority mask of the  *)
(* interrupt controller (ICCPMR), the CPU-core interrupt flag (CPSR.I) and *)
(* the tick handler, on one core.                                          *)
(*                                                                         *)
(* The core executes the frame on top of stk.  Every C statement of a port *)
(* function is one step, so that an interrupt can arrive between any two   *)
(* statements whenever the CPU-core flag and the priority mask let it.     *)
(***************************************************************************)
EXTENDS Integers, Sequences, FiniteSets, TLC

(***************************************************************************)
(* Program constants.                                                      *)
(***************************************************************************)
configMAX_API_CALL_INTERRUPT_PRIORITY == 200
portPRIORITY_SHIFT == 0
portUNMASK_VALUE == 255
portNO_CRITICAL_NESTING == 0
pdFALSE == 0
pdTRUE == 1
InitialCriticalNesting == 9999

\* configMAX_API_CALL_INTERRUPT_PRIORITY << portPRIORITY_SHIFT
ulMaxAPIPriorityMask == configMAX_API_CALL_INTERRUPT_PRIORITY * (2 ^ portPRIORITY_SHIFT)

(***************************************************************************)
(* Interrupt sources.  The tick runs at the lowest usable priority; an     *)
(* interrupt that uses the FromISR API has a priority the raised mask      *)
(* suppresses; a fast interrupt has a priority above the API ceiling and   *)
(* is never masked by a critical section.                                  *)
(***************************************************************************)
TickPriority == 254
ApiIrqPriority == 220
FastIrqPriority == 100
IrqPriorities == {TickPriority, ApiIrqPriority, FastIrqPriority}

(***************************************************************************)
(* Bounds of the model.                                                    *)
(***************************************************************************)
MaxDepth == 2          \* sections a task keeps open at once
MaxIsrDepth == 1       \* sections an interrupt handler keeps open at once
MaxN == 8              \* enters (and exits) of one sequential run

\* ulCriticalNesting and ulPortInterruptNesting are uint32_t.  The values the
\* model reaches stay far below 2^32, so the counters are plain integers and a
\* decrement below zero (the unsigned wrap-around) shows as a negative value.
VARIABLES
    ulCriticalNesting,       \* port.c:236
    ulPortYieldRequired,     \* port.c:243
    ulPortInterruptNesting,  \* port.c:247
    ICCPMR,                  \* interrupt controller priority mask register
    cpsrI,                   \* TRUE: IRQs disabled in the CPU core (CPSID i)
    stk,                     \* call stack of the core, the running frame last
    hist,                    \* start values and call counts of a sequential run
    ulPortTaskHasFPUContext, \* port.c:240
    FPSCR,                   \* floating point status register
    mem,                     \* memory words, by word address
    cpu,                     \* registers of the core as a context restore loads them
    tcb,                     \* per task: the saved top-of-stack pointer
    pxCurrentTCB,            \* the task the scheduler selected, 0 for NULL
    boot,                    \* activation of xPortStartScheduler
    built,                   \* the calls of pxPortInitialiseStack made so far
    xNextFreeByte,           \* heap_simple.c:10
    heapCall                 \* per task: its activation of pvPortMalloc

\* state of the allocator
heap == <<xNextFreeByte, heapCall>>

\* state of task creation, of the scheduler start, of the context switch and
\* of the allocator
aux == <<ulPortTaskHasFPUContext, FPSCR, mem, cpu, tcb, pxCurrentTCB, boot, built, heap>>

vars == <<ulCriticalNesting, ulPortYieldRequired, ulPortInterruptNesting,
          ICCPMR, cpsrI, stk, hist, aux>>

\* the allocator before its first call: static size_t xNextFreeByte = 0
HeapIdle ==
    /\ xNextFreeByte = 0
    /\ heapCall = <<>>

(***************************************************************************)
(* Frames.  n0, m0, i0 are the counter, the mask and the interrupt nesting *)
(* when the frame was entered; v is the frame's local (ulReturn,           *)
(* ulNewMaskValue, the priority of an interrupt); w tells whether the      *)
(* frame wrote the mask register; open is the list of sections the code of *)
(* a task or of a handler body has open ("crit": a critical section,       *)
(* "m0"/"m1": a FromISR mask whose saved value is pdFALSE/pdTRUE).         *)
(***************************************************************************)
NewFrame(fn, pc, v) ==
    [fn |-> fn, pc |-> pc, v |-> v, w |-> FALSE, open |-> <<>>, log |-> <<>>,
     n0 |-> ulCriticalNesting, m0 |-> ICCPMR, i0 |-> ulPortInterruptNesting]

Top == stk[Len(stk)]
Below == SubSeq(stk, 1, Len(stk) - 1)
SetTop(f) == [stk EXCEPT ![Len(stk)] = f]
Goto(pc) == SetTop([Top EXCEPT !.pc = pc])
Push(s, f) == Append(s, f)
At(fn, pc) == Top.fn = fn /\ Top.pc = pc

TaskFrame == [fn |-> "task", pc |-> "run", v |-> 0, w |-> FALSE, open |-> <<>>,
              log |-> <<>>, n0 |-> 0, m0 |-> portUNMASK_VALUE, i0 |-> 0]

\* Code of a task, or the body of an application interrupt handler.
InContext == At("task", "run") \/ At("IRQ", "body")
DepthLimit == IF Top.fn = "task" THEN MaxDepth ELSE MaxIsrDepth

(***************************************************************************)
(* CPU-core interrupt flag and the unmask macro: port.c 157-176.           *)
(***************************************************************************)
\* Faulty variant: the CPSID i is missing: the flag stays as it was
portCPU_IRQ_DISABLE_Missing == cpsrI

\* CPSID i: the value of the I flag after portCPU_IRQ_DISABLE()
portCPU_IRQ_DISABLE == TRUE
\* Faulty variant: the CPSIE i is missing: the flag stays as it was
portCPU_IRQ_ENABLE_Missing == cpsrI

\* CPSIE i: the value of the I flag after portCPU_IRQ_ENABLE()
portCPU_IRQ_ENABLE == FALSE

HasClearMacro(fn) ==
    fn \in {"vPortExitCritical", "vPortClearInterruptMask", "FreeRTOS_Tick_Handler"}

\* portCLEAR_INTERRUPT_MASK(), first statement: portCPU_IRQ_DISABLE()
Clear_Disable ==
    /\ HasClearMacro(Top.fn) /\ Top.pc = "clr_disable"
    /\ cpsrI' = portCPU_IRQ_DISABLE
    /\ stk' = Goto("clr_write")
    /\ UNCHANGED <<ulCriticalNesting, ulPortYieldRequired, ulPortInterruptNesting, ICCPMR, hist, aux>>

\* Faulty variant: the macro writes the raised value instead of the unmask value
Clear_Write_WrongValue ==
    /\ HasClearMacro(Top.fn) /\ Top.pc = "clr_write"
    /\ ICCPMR' = ulMaxAPIPriorityMask
    /\ stk' = SetTop([Top EXCEPT !.pc = "clr_enable", !.w = TRUE,
                                 !.log = Append(@, "unmask")])
    /\ UNCHANGED <<ulCriticalNesting, ulPortYieldRequired, ulPortInterruptNesting, cpsrI, hist, aux>>

\* portICCPMR_PRIORITY_MASK_REGISTER = portUNMASK_VALUE
Clear_Write ==
    /\ HasClearMacro(Top.fn) /\ Top.pc = "clr_write"
    /\ ICCPMR' = portUNMASK_VALUE
    /\ stk' = SetTop([Top EXCEPT !.pc = "clr_enable", !.w = TRUE,
                                 !.log = Append(@, "unmask")])
    /\ UNCHANGED <<ulCriticalNesting, ulPortYieldRequired, ulPortInterruptNesting, cpsrI, hist, aux>>

\* portCPU_IRQ_ENABLE(), the macro's last statement
Clear_Enable ==
    /\ HasClearMacro(Top.fn) /\ Top.pc = "clr_enable"
    /\ cpsrI' = portCPU_IRQ_ENABLE
    /\ stk' = Goto(IF Top.fn = "FreeRTOS_Tick_Handler" THEN "clearTick" ELSE "ret")
    /\ UNCHANGED <<ulCriticalNesting, ulPortYieldRequired, ulPortInterruptNesting, ICCPMR, hist, aux>>

(***************************************************************************)
(* ulPortSetInterruptMask: port.c 810-834.                                 *)
(***************************************************************************)
SetMask_Disable ==
    /\ At("ulPortSetInterruptMask", "disable")
    /\ cpsrI' = portCPU_IRQ_DISABLE
    /\ stk' = Goto("test")
    /\ UNCHANGED <<ulCriticalNesting, ulPortYieldRequired, ulPortInterruptNesting, ICCPMR, hist, aux>>

\* Faulty variant: the comparison is inverted: the register is written only when it
\* already holds the raised value
SetMask_Test_Inverted ==
    /\ At("ulPortSetInterruptMask", "test")
    /\ stk' = IF ICCPMR # ulMaxAPIPriorityMask
                THEN SetTop([Top EXCEPT !.v = pdTRUE, !.pc = "enable"])
                ELSE SetTop([Top EXCEPT !.v = pdFALSE, !.pc = "write"])
    /\ UNCHANGED <<ulCriticalNesting, ulPortYieldRequired, ulPortInterruptNesting, ICCPMR, cpsrI, hist, aux>>

SetMask_Test ==
    /\ At("ulPortSetInterruptMask", "test")
    /\ stk' = IF ICCPMR = ulMaxAPIPriorityMask
                THEN SetTop([Top EXCEPT !.v = pdTRUE, !.pc = "enable"])
                ELSE SetTop([Top EXCEPT !.v = pdFALSE, !.pc = "write"])
    /\ UNCHANGED <<ulCriticalNesting, ulPortYieldRequired, ulPortInterruptNesting, ICCPMR, cpsrI, hist, aux>>

\* Faulty variant: the store to the mask register is missing
SetMask_Write_NoStore ==
    /\ At("ulPortSetInterruptMask", "write")
    /\ stk' = SetTop([Top EXCEPT !.pc = "enable"])
    /\ UNCHANGED <<ulCriticalNesting, ulPortYieldRequired, ulPortInterruptNesting, ICCPMR, cpsrI, hist, aux>>

SetMask_Write ==
    /\ At("ulPortSetInterruptMask", "write")
    /\ ICCPMR' = ulMaxAPIPriorityMask
    /\ stk' = SetTop([Top EXCEPT !.pc = "enable", !.w = TRUE])
    /\ UNCHANGED <<ulCriticalNesting, ulPortYieldRequired, ulPortInterruptNesting, cpsrI, hist, aux>>

SetMask_Enable ==
    /\ At("ulPortSetInterruptMask", "enable")
    /\ cpsrI' = portCPU_IRQ_ENABLE
    /\ stk' = Goto("ret")
    /\ UNCHANGED <<ulCriticalNesting, ulPortYieldRequired, ulPortInterruptNesting, ICCPMR, hist, aux>>

\* return ulReturn: to vPortEnterCritical, which ignores it, or to the code of a
\* task or handler, which keeps it for the matching vPortClearInterruptMask
SetMask_Return ==
    /\ At("ulPortSetInterruptMask", "ret")
    /\ LET caller == stk[Len(stk) - 1]
           saved == IF Top.v = pdTRUE THEN "m1" ELSE "m0"
       IN stk' = IF caller.fn = "vPortEnterCritical"
                   THEN Below
                   ELSE [Below EXCEPT ![Len(stk) - 1].open = Append(@, saved)]
    /\ UNCHANGED <<ulCriticalNesting, ulPortYieldRequired, ulPortInterruptNesting, ICCPMR, cpsrI, hist, aux>>

(***************************************************************************)
(* vPortEnterCritical: port.c 717-736.                                     *)
(***************************************************************************)
\* Faulty variant: the counter is incremented without masking first
Enter_SkipSetMask ==
    /\ At("vPortEnterCritical", "mask")
    /\ stk' = Goto("inc")
    /\ UNCHANGED <<ulCriticalNesting, ulPortYieldRequired, ulPortInterruptNesting, ICCPMR, cpsrI, hist, aux>>

Enter_CallSetMask ==
    /\ At("vPortEnterCritical", "mask")
    /\ stk' = Push(Goto("inc"), NewFrame("ulPortSetInterruptMask", "disable", 0))
    /\ UNCHANGED <<ulCriticalNesting, ulPortYieldRequired, ulPortInterruptNesting, ICCPMR, cpsrI, hist, aux>>

\* ulCriticalNesting++
Enter_Increment ==
    /\ At("vPortEnterCritical", "inc")
    /\ ulCriticalNesting' = ulCriticalNesting + 1
    /\ stk' = Goto("check")
    /\ UNCHANGED <<ulPortYieldRequired, ulPortInterruptNesting, ICCPMR, cpsrI, hist, aux>>

\* Faulty variant: the assertion is made at every nesting level
Enter_Check_AnyLevel ==
    /\ At("vPortEnterCritical", "check")
    /\ stk' = IF ~(ulPortInterruptNesting = 0)
                THEN Push(Goto("ret"), NewFrame("vAssertCalled", "loop", 0))
                ELSE Goto("ret")
    /\ UNCHANGED <<ulCriticalNesting, ulPortYieldRequired, ulPortInterruptNesting, ICCPMR, cpsrI, hist, aux>>

\* if( ulCriticalNesting == 1 ) configASSERT( ulPortInterruptNesting == 0 )
Enter_Check ==
    /\ At("vPortEnterCritical", "check")
    /\ stk' = IF ulCriticalNesting = 1 /\ ~(ulPortInterruptNesting = 0)
                THEN Push(Goto("ret"), NewFrame("vAssertCalled", "loop", 0))
                ELSE Goto("ret")
    /\ UNCHANGED <<ulCriticalNesting, ulPortYieldRequired, ulPortInterruptNesting, ICCPMR, cpsrI, hist, aux>>

Enter_Return ==
    /\ At("vPortEnterCritical", "ret")
    /\ stk' = [Below EXCEPT ![Len(stk) - 1].open = Append(@, "crit")]
    /\ UNCHANGED <<ulCriticalNesting, ulPortYieldRequired, ulPortInterruptNesting, ICCPMR, cpsrI, hist, aux>>

\* vAssertCalled: main.c 100-141, ends in for (;;);
Assert_Loop ==
    /\ At("vAssertCalled", "loop")
    /\ UNCHANGED vars

(***************************************************************************)
(* vPortExitCritical: port.c 739-756.                                      *)
(***************************************************************************)
\* Faulty variant: the guard is missing: the counter is decremented at zero too
Exit_Test_NoGuard ==
    /\ At("vPortExitCritical", "test")
    /\ stk' = Goto("dec")
    /\ UNCHANGED <<ulCriticalNesting, ulPortYieldRequired, ulPortInterruptNesting, ICCPMR, cpsrI, hist, aux>>

\* Faulty variant: the guard is off by one: the last level is never left
Exit_Test_OffByOne ==
    /\ At("vPortExitCritical", "test")
    /\ stk' = Goto(IF ulCriticalNesting > portNO_CRITICAL_NESTING + 1 THEN "dec" ELSE "ret")
    /\ UNCHANGED <<ulCriticalNesting, ulPortYieldRequired, ulPortInterruptNesting, ICCPMR, cpsrI, hist, aux>>

\* if( ulCriticalNesting > portNO_CRITICAL_NESTING )
Exit_Test ==
    /\ At("vPortExitCritical", "test")
    /\ stk' = Goto(IF ulCriticalNesting > portNO_CRITICAL_NESTING THEN "dec" ELSE "ret")
    /\ UNCHANGED <<ulCriticalNesting, ulPortYieldRequired, ulPortInterruptNesting, ICCPMR, cpsrI, hist, aux>>

\* Faulty variant: the exit clears the counter instead of decrementing it
Exit_Decrement_Reset ==
    /\ At("vPortExitCritical", "dec")
    /\ ulCriticalNesting' = portNO_CRITICAL_NESTING
    /\ stk' = Goto("zero")
    /\ UNCHANGED <<ulPortYieldRequired, ulPortInterruptNesting, ICCPMR, cpsrI, hist, aux>>

\* ulCriticalNesting--
Exit_Decrement ==
    /\ At("vPortExitCritical", "dec")
    /\ ulCriticalNesting' = ulCriticalNesting - 1
    /\ stk' = Goto("zero")
    /\ UNCHANGED <<ulPortYieldRequired, ulPortInterruptNesting, ICCPMR, cpsrI, hist, aux>>

\* Faulty variant: the mask is cleared at every exit
Exit_TestZero_Always ==
    /\ At("vPortExitCritical", "zero")
    /\ stk' = Goto("clr_disable")
    /\ UNCHANGED <<ulCriticalNesting, ulPortYieldRequired, ulPortInterruptNesting, ICCPMR, cpsrI, hist, aux>>

\* if( ulCriticalNesting == portNO_CRITICAL_NESTING ) portCLEAR_INTERRUPT_MASK()
Exit_TestZero ==
    /\ At("vPortExitCritical", "zero")
    /\ stk' = Goto(IF ulCriticalNesting = portNO_CRITICAL_NESTING THEN "clr_disable" ELSE "ret")
    /\ UNCHANGED <<ulCriticalNesting, ulPortYieldRequired, ulPortInterruptNesting, ICCPMR, cpsrI, hist, aux>>

Exit_Return ==
    /\ At("vPortExitCritical", "ret")
    /\ stk' = Below
    /\ UNCHANGED <<ulCriticalNesting, ulPortYieldRequired, ulPortInterruptNesting, ICCPMR, cpsrI, hist, aux>>

(***************************************************************************)
(* vPortClearInterruptMask: port.c 801-807.                                *)
(***************************************************************************)
\* Faulty variant: the mask is cleared whatever ulNewMaskValue is
ClearMask_Test_Always ==
    /\ At("vPortClearInterruptMask", "test")
    /\ stk' = Goto("clr_disable")
    /\ UNCHANGED <<ulCriticalNesting, ulPortYieldRequired, ulPortInterruptNesting, ICCPMR, cpsrI, hist, aux>>

\* Faulty variant: the comparison is inverted: the mask is cleared when
\* ulNewMaskValue says it was already raised
ClearMask_Test_Inverted ==
    /\ At("vPortClearInterruptMask", "test")
    /\ stk' = Goto(IF Top.v # pdFALSE THEN "clr_disable" ELSE "ret")
    /\ UNCHANGED <<ulCriticalNesting, ulPortYieldRequired, ulPortInterruptNesting, ICCPMR, cpsrI, hist, aux>>

\* if( ulNewMaskValue == pdFALSE ) portCLEAR_INTERRUPT_MASK()
ClearMask_Test ==
    /\ At("vPortClearInterruptMask", "test")
    /\ stk' = Goto(IF Top.v = pdFALSE THEN "clr_disable" ELSE "ret")
    /\ UNCHANGED <<ulCriticalNesting, ulPortYieldRequired, ulPortInterruptNesting, ICCPMR, cpsrI, hist, aux>>

ClearMask_Return ==
    /\ At("vPortClearInterruptMask", "ret")
    /\ stk' = Below
    /\ UNCHANGED <<ulCriticalNesting, ulPortYieldRequired, ulPortInterruptNesting, ICCPMR, cpsrI, hist, aux>>

(***************************************************************************)
(* FreeRTOS_Tick_Handler: port.c 759-781.  xTaskIncrementTick is the       *)
(* scheduler's: the handler is inside it from Tick_CallIncrement to        *)
(* Tick_IncrementReturns, and its result is any value.                     *)
(***************************************************************************)
Tick_Disable ==
    /\ At("FreeRTOS_Tick_Handler", "disable")
    /\ cpsrI' = portCPU_IRQ_DISABLE
    /\ stk' = Goto("raise")
    /\ UNCHANGED <<ulCriticalNesting, ulPortYieldRequired, ulPortInterruptNesting, ICCPMR, hist, aux>>

\* Faulty variant: the handler writes the unmask value where it should raise the mask
Tick_Raise_Unmask ==
    /\ At("FreeRTOS_Tick_Handler", "raise")
    /\ ICCPMR' = portUNMASK_VALUE
    /\ stk' = SetTop([Top EXCEPT !.pc = "enable", !.log = Append(@, "raise")])
    /\ UNCHANGED <<ulCriticalNesting, ulPortYieldRequired, ulPortInterruptNesting, cpsrI, hist, aux>>

\* portICCPMR_PRIORITY_MASK_REGISTER = configMAX_API_CALL_INTERRUPT_PRIORITY << portPRIORITY_SHIFT
Tick_Raise ==
    /\ At("FreeRTOS_Tick_Handler", "raise")
    /\ ICCPMR' = ulMaxAPIPriorityMask
    /\ stk' = SetTop([Top EXCEPT !.pc = "enable", !.log = Append(@, "raise")])
    /\ UNCHANGED <<ulCriticalNesting, ulPortYieldRequired, ulPortInterruptNesting, cpsrI, hist, aux>>

Tick_Enable ==
    /\ At("FreeRTOS_Tick_Handler", "enable")
    /\ cpsrI' = portCPU_IRQ_ENABLE
    /\ stk' = Goto("callTick")
    /\ UNCHANGED <<ulCriticalNesting, ulPortYieldRequired, ulPortInterruptNesting, ICCPMR, hist, aux>>

Tick_CallIncrement ==
    /\ At("FreeRTOS_Tick_Handler", "callTick")
    /\ stk' = SetTop([Top EXCEPT !.pc = "inTick", !.log = Append(@, "tick")])
    /\ UNCHANGED <<ulCriticalNesting, ulPortYieldRequired, ulPortInterruptNesting, ICCPMR, cpsrI, hist, aux>>

\* Faulty variant: the handler stores the result of xTaskIncrementTick in the flag
Tick_IncrementReturns_StoreResult ==
    /\ At("FreeRTOS_Tick_Handler", "inTick")
    /\ \E xSwitchRequired \in {pdFALSE, pdTRUE} :
          /\ stk' = SetTop([Top EXCEPT !.v = xSwitchRequired,
                                       !.pc = IF xSwitchRequired # pdFALSE
                                                THEN "setYield" ELSE "clr_disable"])
          /\ ulPortYieldRequired' = xSwitchRequired
    /\ UNCHANGED <<ulCriticalNesting, ulPortInterruptNesting, ICCPMR, cpsrI, hist, aux>>

\* if( xTaskIncrementTick() != pdFALSE )
Tick_IncrementReturns ==
    /\ At("FreeRTOS_Tick_Handler", "inTick")
    /\ \E xSwitchRequired \in {pdFALSE, pdTRUE} :
          stk' = SetTop([Top EXCEPT !.v = xSwitchRequired,
                                    !.pc = IF xSwitchRequired # pdFALSE
                                             THEN "setYield" ELSE "clr_disable"])
    /\ UNCHANGED <<ulCriticalNesting, ulPortYieldRequired, ulPortInterruptNesting, ICCPMR, cpsrI, hist, aux>>

\* ulPortYieldRequired = pdTRUE
Tick_SetYield ==
    /\ At("FreeRTOS_Tick_Handler", "setYield")
    /\ ulPortYieldRequired' = pdTRUE
    /\ stk' = SetTop([Top EXCEPT !.pc = "clr_disable", !.log = Append(@, "yield")])
    /\ UNCHANGED <<ulCriticalNesting, ulPortInterruptNesting, ICCPMR, cpsrI, hist, aux>>

\* configCLEAR_TICK_INTERRUPT(), which FreeRTOSConfig.h defines empty
Tick_ClearSource ==
    /\ At("FreeRTOS_Tick_Handler", "clearTick")
    /\ stk' = SetTop([Top EXCEPT !.pc = "ret", !.log = Append(@, "clear")])
    /\ UNCHANGED <<ulCriticalNesting, ulPortYieldRequired, ulPortInterruptNesting, ICCPMR, cpsrI, hist, aux>>

Tick_Return ==
    /\ At("FreeRTOS_Tick_Handler", "ret")
    /\ stk' = Below
    /\ UNCHANGED <<ulCriticalNesting, ulPortYieldRequired, ulPortInterruptNesting, ICCPMR, cpsrI, hist, aux>>

(***************************************************************************)
(* Interrupt entry and exit (FreeRTOS_IRQ_Handler of the port's assembly   *)
(* file, and the interrupt controller).  An interrupt of priority p is     *)
(* taken when the CPU-core flag allows IRQs, p is numerically below the    *)
(* priority mask and p is numerically below the priority of every handler  *)
(* that is active (the controller's running priority, which drops at the   *)
(* end-of-interrupt write of the exit).  Entry and exit run with IRQs      *)
(* disabled in the core, so each is one step; the handler may or may not   *)
(* re-enable IRQs.                                                         *)
(***************************************************************************)
ActivePriorities == {stk[i].v : i \in {j \in 1 .. Len(stk) : stk[j].fn = "IRQ"}}
Deliverable(p) ==
    /\ ~cpsrI
    /\ p < ICCPMR
    /\ \A q \in ActivePriorities : p < q

IrqEntry ==
    /\ \E p \in IrqPriorities, reenable \in BOOLEAN :
          /\ Deliverable(p)
          /\ cpsrI' = ~reenable
          /\ ulPortInterruptNesting' = ulPortInterruptNesting + 1
          /\ stk' = IF p = TickPriority
                      THEN Push(Push(stk, NewFrame("IRQ", "exit", p)),
                                [NewFrame("FreeRTOS_Tick_Handler", "disable", 0)
                                    EXCEPT !.i0 = ulPortInterruptNesting + 1])
                      ELSE Push(stk, NewFrame("IRQ", "body", p))
    /\ UNCHANGED <<ulCriticalNesting, ulPortYieldRequired, ICCPMR, hist, aux>>

\* the body of an application handler returns once it has closed its sections
Handler_Return ==
    /\ At("IRQ", "body")
    /\ Top.open = <<>>
    /\ stk' = Goto("exit")
    /\ UNCHANGED <<ulCriticalNesting, ulPortYieldRequired, ulPortInterruptNesting, ICCPMR, cpsrI, hist, aux>>

\* The context switch of the outermost interrupt exit, with one task: the
\* restored context is the one that was saved, and the restore unmasks when its
\* critical nesting count is zero.
RestoredMask == IF ulCriticalNesting = portNO_CRITICAL_NESTING THEN portUNMASK_VALUE ELSE ICCPMR

\* Faulty variant: the exit performs a pending switch at any nesting depth
IrqExit_SwitchWhenNested ==
    /\ At("IRQ", "exit")
    /\ ulPortInterruptNesting' = ulPortInterruptNesting - 1
    /\ cpsrI' = FALSE
    /\ stk' = Below
    /\ IF ulPortYieldRequired # pdFALSE
         THEN ulPortYieldRequired' = pdFALSE /\ ICCPMR' = RestoredMask
         ELSE UNCHANGED <<ulPortYieldRequired, ICCPMR>>
    /\ UNCHANGED <<ulCriticalNesting, hist, aux>>

IrqExit ==
    /\ At("IRQ", "exit")
    /\ ulPortInterruptNesting' = ulPortInterruptNesting - 1
    /\ cpsrI' = FALSE
    /\ stk' = Below
    /\ IF ulPortInterruptNesting - 1 = 0 /\ ulPortYieldRequired # pdFALSE
         THEN ulPortYieldRequired' = pdFALSE /\ ICCPMR' = RestoredMask
         ELSE UNCHANGED <<ulPortYieldRequired, ICCPMR>>
    /\ UNCHANGED <<ulCriticalNesting, hist, aux>>

(***************************************************************************)
(* The callers: code of a task, or of the body of an application interrupt *)
(* handler.  It closes the sections it opens, innermost first, and may     *)
(* call vPortExitCritical with nothing open when the counter is zero.      *)
(***************************************************************************)
CallEnter ==
    /\ InContext
    /\ Len(Top.open) < DepthLimit
    /\ stk' = Push(stk, NewFrame("vPortEnterCritical", "mask", 0))
    /\ UNCHANGED <<ulCriticalNesting, ulPortYieldRequired, ulPortInterruptNesting, ICCPMR, cpsrI, hist, aux>>

CallExit ==
    /\ InContext
    /\ IF Top.open # <<>> /\ Top.open[Len(Top.open)] = "crit"
         THEN stk' = Push(SetTop([Top EXCEPT !.open = SubSeq(@, 1, Len(@) - 1)]),
                          NewFrame("vPortExitCritical", "test", 0))
         ELSE /\ ulCriticalNesting = portNO_CRITICAL_NESTING
              /\ stk' = Push(stk, NewFrame("vPortExitCritical", "test", 0))
    /\ UNCHANGED <<ulCriticalNesting, ulPortYieldRequired, ulPortInterruptNesting, ICCPMR, cpsrI, hist, aux>>

CallSetMask ==
    /\ InContext
    /\ Len(Top.open) < DepthLimit
    /\ stk' = Push(stk, NewFrame("ulPortSetInterruptMask", "disable", 0))
    /\ UNCHANGED <<ulCriticalNesting, ulPortYieldRequired, ulPortInterruptNesting, ICCPMR, cpsrI, hist, aux>>

\* vPortClearInterruptMask( ulSaved ), ulSaved returned by the matching call
CallClearMask ==
    /\ InContext
    /\ Top.open # <<>> /\ Top.open[Len(Top.open)] \in {"m0", "m1"}
    /\ LET ulSaved == IF Top.open[Len(Top.open)] = "m1" THEN pdTRUE ELSE pdFALSE
       IN stk' = Push(SetTop([Top EXCEPT !.open = SubSeq(@, 1, Len(@) - 1)]),
                      NewFrame("vPortClearInterruptMask", "test", ulSaved))
    /\ UNCHANGED <<ulCriticalNesting, ulPortYieldRequired, ulPortInterruptNesting, ICCPMR, cpsrI, hist, aux>>

(***************************************************************************)
(* Memory.  A word is addressed by its word index; a task's stack is a     *)
(* region of StackWords words followed by BeyondWords words that belong to *)
(* whatever the allocator placed after it.  Stacks grow downwards.         *)
(***************************************************************************)
NumTasks == 2
configMINIMAL_STACK_SIZE == 128
StackWords == configMINIMAL_STACK_SIZE
BeyondWords == 16
RegionWords == StackWords + BeyondWords
MemWords == NumTasks * RegionWords
Addresses == 0 .. (MemWords - 1)
StackBase(k) == (k - 1) * RegionWords
StackRegion(k) == StackBase(k) .. (StackBase(k) + StackWords - 1)
\* the top-of-stack addresses the task creation hands over (the last word of
\* the stack, or the word below it after aligning down)
Tops(k) == {StackBase(k) + StackWords - 1, StackBase(k) + StackWords - 2}

RECURSIVE BitAnd(_, _)
BitAnd(a, b) ==
    IF a = 0 \/ b = 0 THEN 0
    ELSE (a % 2) * (b % 2) + 2 * BitAnd(a \div 2, b \div 2)

RECURSIVE BitOr(_, _)
BitOr(a, b) ==
    IF a = 0 THEN b
    ELSE IF b = 0 THEN a
    ELSE (IF a % 2 = 1 \/ b % 2 = 1 THEN 1 ELSE 0) + 2 * BitOr(a \div 2, b \div 2)

(***************************************************************************)
(* pxPortInitialiseStack: port.c 260-382.  The function is the sequence of *)
(* its statements on *pxTopOfStack and pxTopOfStack; each statement acts   *)
(* on the memory, the pointer and the record of the addresses written.     *)
(***************************************************************************)
NULL == 0
portNO_FLOATING_POINT_CONTEXT == 0
portINITIAL_SPSR == 31
portTHUMB_MODE_BIT == 32
portTHUMB_MODE_ADDRESS == 1
portINTERRUPT_ENABLE_BIT == 128
FiqDisableBit == 64
portAPSR_MODE_BITS_MASK == 31
portAPSR_USER_MODE == 16
portFPU_REGISTER_WORDS == (32 * 2) + 1
\* the address of prvTaskExitError, which the linker chooses
portTASK_RETURN_ADDRESS == 1073742000

\* 0x01010101 for R1 ... 0x09090909 for R9, 0x10101010 for R10 ... 0x12121212
RegisterFill(r) == (16 * (r \div 10) + (r % 10)) * 16843009

Store(val) == [op |-> "store", val |-> val]
OrIn(val) == [op |-> "or", val |-> val]
Decrement == [op |-> "dec", val |-> 0]

\* *pxTopOfStack = 0xrrrrrrrr; pxTopOfStack--;   for R12 down to R1
RECURSIVE FillRegisters(_)
FillRegisters(r) ==
    IF r = 0 THEN <<>>
    ELSE <<Store(RegisterFill(r)), Decrement>> \o FillRegisters(r - 1)

\* Faulty variant: the Thumb bit is set whatever the entry address is
StatusCode_ThumbAlways(pxCode) ==
    <<Store(NULL), Decrement, Store(NULL), Decrement,
      Store(portINITIAL_SPSR), OrIn(portTHUMB_MODE_BIT), Decrement>>

\* two spare words, then the processor status                     276-290
StatusCode(pxCode) ==
    <<Store(NULL), Decrement,                                  \* 276-277
      Store(NULL), Decrement,                                  \* 278-279
      Store(portINITIAL_SPSR)>>                                \* 282
    \o (IF BitAnd(pxCode, portTHUMB_MODE_ADDRESS) # 0          \* 284
          THEN <<OrIn(portTHUMB_MODE_BIT)>>                    \* 287
          ELSE <<>>)
    \o <<Decrement>>                                           \* 290

\* Faulty variant: the pointer is not moved after the entry address is stored
EntryCode_NoDecrement(pxCode) == <<Store(pxCode)>>

\* the program counter                                           293-294
EntryCode(pxCode) == <<Store(pxCode), Decrement>>

\* Faulty variant: the parameter is stored in the slot of R1, R0 gets a fill value
RegisterCode_ParameterInR1(pvParameters) ==
    <<Store(portTASK_RETURN_ADDRESS), Decrement>>
    \o SubSeq(FillRegisters(12), 1, 22)
    \o <<Store(pvParameters), Decrement, Store(RegisterFill(0)), Decrement>>

\* R14, R12 ... R1, R0                                           297-324
RegisterCode(pvParameters) ==
    <<Store(portTASK_RETURN_ADDRESS), Decrement>>              \* 297-298
    \o FillRegisters(12)                                       \* 299-322
    \o <<Store(pvParameters), Decrement>>                      \* 323-324

\* the critical nesting count                                    328
NestingCode == <<Store(portNO_CRITICAL_NESTING)>>

\* Faulty variant: the pointer is moved once more after the flag is stored
FloatingPointCode_ExtraDecrement ==
    <<Decrement, Store(portNO_FLOATING_POINT_CONTEXT), Decrement>>

\* Faulty variant: the task is created with the floating point flag set
FloatingPointCode_FlagSet == <<Decrement, Store(pdTRUE)>>

\* configUSE_TASK_FPU_SUPPORT == 1: the floating point flag     335-336
FloatingPointCode == <<Decrement, Store(portNO_FLOATING_POINT_CONTEXT)>>

InitialiseStackCode(pxCode, pvParameters) ==
    StatusCode(pxCode) \o EntryCode(pxCode) \o RegisterCode(pvParameters)
    \o NestingCode \o FloatingPointCode

\* what the memory holds before anything is written to it
MemoryFill == RegisterFill(5)

\* one statement of the function
Execute(s, st) ==
    CASE st.op = "store" -> [s EXCEPT !.mem[s.p] = st.val,
                                      !.written = @ \cup {s.p}]
      [] st.op = "or"    -> [s EXCEPT !.mem[s.p] = BitOr(s.mem[s.p], st.val),
                                      !.written = @ \cup {s.p}]
      [] st.op = "dec"   -> [s EXCEPT !.p = @ - 1]

RECURSIVE Run(_, _)
Run(s, code) ==
    IF code = <<>> THEN s ELSE Run(Execute(s, Head(code)), Tail(code))

\* the memory after the call, the pointer returned and the addresses written
pxPortInitialiseStack(m, pxTopOfStack, pxCode, pvParameters) ==
    Run([mem |-> m, p |-> pxTopOfStack, written |-> {}],
        InitialiseStackCode(pxCode, pvParameters))

(***************************************************************************)
(* The restore of a saved context.  xPortStartScheduler walks the frame of *)
(* the current task the way portRESTORE_CONTEXT consumes it (port.c        *)
(* 545-583): the floating point flag, the floating point registers when    *)
(* the flag is set, the critical nesting count, R0-R12 and R14, and then   *)
(* the pair RFEIA loads, the program counter from the lower address.       *)
(***************************************************************************)
GeneralRegisters == 14       \* POP {R0-R12, R14}

RestoreContext(m, sp) ==
    LET fpu_context == m[sp]
        fpuWords == IF fpu_context # portNO_FLOATING_POINT_CONTEXT
                      THEN portFPU_REGISTER_WORDS ELSE 0
        nestingAt == sp + 1 + fpuWords
        registersAt == nestingAt + 1
        pairAt == registersAt + GeneralRegisters
    IN [fpu_context |-> fpu_context,
        fpu |-> [i \in 1 .. fpuWords |-> m[sp + i]],
        critical_nesting |-> m[nestingAt],
        r |-> [i \in 1 .. GeneralRegisters |-> m[registersAt + i - 1]],
        pairAt |-> pairAt,
        pc |-> m[pairAt],
        cpsr |-> m[pairAt + 1],
        sp |-> pairAt + 2]

\* The registers the restore loads.  The floating point block of a frame is
\* the FPSCR followed by the 64 words of D16-D31 and D0-D15; a task without a
\* floating point context leaves the floating point registers as they are.
LoadContext(ctx) ==
    [r |-> ctx.r, pc |-> ctx.pc, cpsr |-> ctx.cpsr, sp |-> ctx.sp,
     fpu |-> IF ctx.fpu_context # portNO_FLOATING_POINT_CONTEXT
               THEN Tail(ctx.fpu) ELSE cpu.fpu]
LoadFPSCR(ctx) ==
    IF ctx.fpu_context # portNO_FLOATING_POINT_CONTEXT THEN Head(ctx.fpu) ELSE FPSCR

\* the registers of the core before any context has been restored
ResetCpu == [r |-> [i \in 1 .. GeneralRegisters |-> 0], pc |-> 0, cpsr |-> 0,
             sp |-> 0, fpu |-> <<>>]

(***************************************************************************)
(* Task creation: the kernel calls pxPortInitialiseStack with the top of   *)
(* the new task's stack and keeps the returned pointer in the task's       *)
(* control block.  Which of the created tasks pxCurrentTCB points to when  *)
(* the scheduler is started is the kernel's choice.                        *)
(***************************************************************************)
vPLCMain == 1073745096           \* 0x40000CC8, the entry the start code looks for
\* an entry in ARM code and an entry in Thumb code (bit 0 set)
Codes == {vPLCMain, vPLCMain + 1}
Params == {NULL, 2}

CreateTask ==
    /\ At("main", "create")
    /\ Len(built) < NumTasks
    /\ LET k == Len(built) + 1
       IN \E pxTopOfStack \in Tops(k), pxCode \in Codes, pvParameters \in Params :
            LET res == pxPortInitialiseStack(mem, pxTopOfStack, pxCode, pvParameters)
            IN /\ mem' = res.mem
               /\ tcb' = Append(tcb, res.p)
               /\ built' = Append(built, [top |-> pxTopOfStack, code |-> pxCode,
                                          param |-> pvParameters, ret |-> res.p,
                                          written |-> res.written, before |-> mem])
    /\ UNCHANGED <<ulCriticalNesting, ulPortYieldRequired, ulPortInterruptNesting,
                   ICCPMR, cpsrI, stk, hist, ulPortTaskHasFPUContext, FPSCR, cpu,
                   pxCurrentTCB, boot, heap>>

(***************************************************************************)
(* xPortStartScheduler: port.c 402-706.  boot holds its locals and what it *)
(* has done: whether IRQs were disabled, the tick source was set up and    *)
(* vPortRestoreTaskContext was called, the binary point it read and the    *)
(* word its test write replaced.  The privileged branch (479-645)          *)
(* and the user mode branch (646-697) share the statements that disable    *)
(* IRQs, set up the tick, inspect the stack and call the restore; the pc   *)
(* tells the branch.                                                       *)
(***************************************************************************)
portMAX_8_BIT_VALUE == 255
portBIT_0_SET == 1
portBINARY_POINT_BITS == 3
portLOWEST_INTERRUPT_PRIORITY == 255
portMAX_BINARY_POINT_VALUE == 0
\* 0xDEADBEEF as a 32 bit pattern (two's complement)
test_value == 0 - 559038737
RestoredPC == 1073763116         \* 0x4000532C, port.c:603
TestOffset == 16                 \* &stack_ptr[16], port.c:598

\* the priority bits a controller implements, as read back after writing 0xFF
PriorityBitMasks == {255, 248, 240}
\* mode bits of the CPSR: User, Supervisor, System
CpuModes == {portAPSR_USER_MODE, 19, 31}
BinaryPoints == {0, 2, 3, 4}

BootIdle == [ucOriginalPriority |-> 0, ucMaxPriorityValue |-> 0, ulAPSR |-> 0,
             stack_ptr |-> 0, priorityReg |-> 0, mode |-> 0,
             tick |-> FALSE, restore |-> FALSE, returned |-> FALSE,
             irqOff |-> FALSE, binaryPoint |-> 0, testOld |-> 0]

InStart(pc) == At("xPortStartScheduler", pc)
StartGoto(pc) ==
    /\ stk' = Goto(pc)
    /\ UNCHANGED <<ulCriticalNesting, ulPortYieldRequired, ulPortInterruptNesting,
                   ICCPMR, hist, ulPortTaskHasFPUContext, FPSCR, cpu, tcb,
                   pxCurrentTCB, built, heap>>

\* vTaskStartScheduler calls xPortStartScheduler once a task exists
Main_StartScheduler ==
    /\ At("main", "create")
    /\ Len(built) >= 1
    /\ \E mode \in CpuModes : boot' = [boot EXCEPT !.mode = mode]
    /\ \E cur \in 1 .. Len(built) : pxCurrentTCB' = cur
    /\ stk' = Push(Goto("started"), NewFrame("xPortStartScheduler", "prio_save", 0))
    /\ UNCHANGED <<ulCriticalNesting, ulPortYieldRequired, ulPortInterruptNesting,
                   ICCPMR, cpsrI, hist, ulPortTaskHasFPUContext, FPSCR, mem, cpu,
                   tcb, built, heap>>

\* ucOriginalPriority = *pucFirstUserPriorityRegister;                    415
Start_SavePriority ==
    /\ InStart("prio_save")
    /\ boot' = [boot EXCEPT !.ucOriginalPriority = boot.priorityReg]
    /\ StartGoto("prio_probe")
    /\ UNCHANGED <<cpsrI, mem>>

\* *pucFirstUserPriorityRegister = 0xff; ucMaxPriorityValue = the read back  420-423
Start_ProbePriority ==
    /\ InStart("prio_probe")
    /\ \E implemented \in PriorityBitMasks :
          boot' = [boot EXCEPT
                     !.priorityReg = BitAnd(portMAX_8_BIT_VALUE, implemented),
                     !.ucMaxPriorityValue = BitAnd(portMAX_8_BIT_VALUE, implemented)]
    /\ StartGoto("prio_shift")
    /\ UNCHANGED <<cpsrI, mem>>

\* while( ( ucMaxPriorityValue & portBIT_0_SET ) != portBIT_0_SET )       429-432
\*     ucMaxPriorityValue >>= 1;
Start_ShiftPriority ==
    /\ InStart("prio_shift")
    /\ IF BitAnd(boot.ucMaxPriorityValue, portBIT_0_SET) # portBIT_0_SET
         THEN /\ boot' = [boot EXCEPT !.ucMaxPriorityValue = @ \div 2]
              /\ StartGoto("prio_shift")
         ELSE /\ boot' = boot
              /\ StartGoto("prio_assert")
    /\ UNCHANGED <<cpsrI, mem>>

\* Faulty variant: the number of priority bits is not checked
Start_AssertPriority_NoCheck ==
    /\ InStart("prio_assert")
    /\ stk' = Goto("prio_restore")
    /\ UNCHANGED <<ulCriticalNesting, ulPortYieldRequired, ulPortInterruptNesting,
                   ICCPMR, cpsrI, hist, aux>>

\* configASSERT( ucMaxPriorityValue == portLOWEST_INTERRUPT_PRIORITY );   444
Start_AssertPriority ==
    /\ InStart("prio_assert")
    /\ stk' = IF boot.ucMaxPriorityValue = portLOWEST_INTERRUPT_PRIORITY
                THEN Goto("prio_restore")
                ELSE Push(Goto("prio_restore"), NewFrame("vAssertCalled", "loop", 0))
    /\ UNCHANGED <<ulCriticalNesting, ulPortYieldRequired, ulPortInterruptNesting,
                   ICCPMR, cpsrI, hist, aux>>

\* Faulty variant: the register is not written back
Start_RestorePriority_Missing ==
    /\ InStart("prio_restore")
    /\ boot' = boot
    /\ StartGoto("read_apsr")
    /\ UNCHANGED <<cpsrI, mem>>

\* *pucFirstUserPriorityRegister = ucOriginalPriority;                    448
Start_RestorePriority ==
    /\ InStart("prio_restore")
    /\ boot' = [boot EXCEPT !.priorityReg = boot.ucOriginalPriority]
    /\ StartGoto("read_apsr")
    /\ UNCHANGED <<cpsrI, mem>>

\* MRS APSR; ulAPSR &= portAPSR_MODE_BITS_MASK;                           455-456
Start_ReadAPSR ==
    /\ InStart("read_apsr")
    /\ boot' = [boot EXCEPT !.ulAPSR = BitAnd(boot.mode, portAPSR_MODE_BITS_MASK)]
    /\ StartGoto("mode_assert")
    /\ UNCHANGED <<cpsrI, mem>>

\* Faulty variant: the mode is not checked
Start_AssertMode_NoCheck ==
    /\ InStart("mode_assert")
    /\ stk' = Goto("mode_test")
    /\ UNCHANGED <<ulCriticalNesting, ulPortYieldRequired, ulPortInterruptNesting,
                   ICCPMR, cpsrI, hist, aux>>

\* configASSERT( ulAPSR != portAPSR_USER_MODE );                          466
Start_AssertMode ==
    /\ InStart("mode_assert")
    /\ stk' = IF boot.ulAPSR # portAPSR_USER_MODE
                THEN Goto("mode_test")
                ELSE Push(Goto("mode_test"), NewFrame("vAssertCalled", "loop", 0))
    /\ UNCHANGED <<ulCriticalNesting, ulPortYieldRequired, ulPortInterruptNesting,
                   ICCPMR, cpsrI, hist, aux>>

\* if( ulAPSR != portAPSR_USER_MODE ) ... else ...                        479, 646
Start_TestMode ==
    /\ InStart("mode_test")
    /\ boot' = boot
    /\ StartGoto(IF boot.ulAPSR # portAPSR_USER_MODE THEN "bp_test" ELSE "u_disable")
    /\ UNCHANGED <<cpsrI, mem>>

\* if( ( portICCBPR_BINARY_POINT_REGISTER & portBINARY_POINT_BITS )       489
\*         <= portMAX_BINARY_POINT_VALUE )
\* Faulty variant: the start goes on whatever the binary point is
Start_TestBinaryPoint_NoTest ==
    /\ InStart("bp_test")
    /\ \E iccbpr \in BinaryPoints :
          boot' = [boot EXCEPT !.binaryPoint = BitAnd(iccbpr, portBINARY_POINT_BITS)]
    /\ StartGoto("p_disable")
    /\ UNCHANGED <<cpsrI, mem>>

Start_TestBinaryPoint ==
    /\ InStart("bp_test")
    /\ \E iccbpr \in BinaryPoints :
          /\ boot' = [boot EXCEPT !.binaryPoint = BitAnd(iccbpr, portBINARY_POINT_BITS)]
          /\ StartGoto(IF BitAnd(iccbpr, portBINARY_POINT_BITS) <= portMAX_BINARY_POINT_VALUE
                         THEN "p_disable" ELSE "return0")
    /\ UNCHANGED <<cpsrI, mem>>

\* Faulty variant: the CPSID i of the start is missing
Start_DisableIrq_NoDisable ==
    /\ InStart("p_disable") \/ InStart("u_disable")
    /\ boot' = [boot EXCEPT !.irqOff = TRUE]
    /\ StartGoto(IF Top.pc = "p_disable" THEN "p_tick" ELSE "u_tick")
    /\ UNCHANGED <<cpsrI, mem>>

\* portCPU_IRQ_DISABLE();                                                 495, 655
Start_DisableIrq ==
    /\ InStart("p_disable") \/ InStart("u_disable")
    /\ cpsrI' = portCPU_IRQ_DISABLE
    /\ boot' = [boot EXCEPT !.irqOff = TRUE]
    /\ StartGoto(IF Top.pc = "p_disable" THEN "p_tick" ELSE "u_tick")
    /\ UNCHANGED mem

\* configSETUP_TICK_INTERRUPT();                                          498, 658
Start_SetupTick ==
    /\ InStart("p_tick") \/ InStart("u_tick")
    /\ boot' = [boot EXCEPT !.tick = TRUE]
    /\ StartGoto(IF Top.pc = "p_tick" THEN "p_inspect" ELSE "u_inspect")
    /\ UNCHANGED <<cpsrI, mem>>

\* the dump of the words at the saved stack pointer; it only reads   504-540, 663-694
Start_Inspect ==
    /\ InStart("p_inspect") \/ InStart("u_inspect")
    /\ boot' = boot
    /\ StartGoto(IF Top.pc = "p_inspect" THEN "simulate" ELSE "u_restore")
    /\ UNCHANGED <<cpsrI, mem>>

\* stack_ptr = *pxCurrentTCB; fpu_context = *stack_ptr++;                 547-571
\* critical_nesting = *stack_ptr++; stack_ptr += 14;
Start_Simulate ==
    /\ InStart("simulate")
    /\ boot' = [boot EXCEPT !.stack_ptr = tcb[pxCurrentTCB] + 1 + 1 + GeneralRegisters]
    /\ StartGoto("test_write")
    /\ UNCHANGED <<cpsrI, mem>>

\* Faulty variant: the test value is not stored
Start_TestWrite_NoStore ==
    /\ InStart("test_write")
    /\ boot' = [boot EXCEPT !.testOld = mem[boot.stack_ptr + TestOffset]]
    /\ StartGoto("test_check")
    /\ UNCHANGED <<cpsrI, mem>>

\* test_addr = &stack_ptr[16]; *test_addr = test_value;                   597-600
Start_TestWrite ==
    /\ InStart("test_write")
    /\ mem' = [mem EXCEPT ![boot.stack_ptr + TestOffset] = test_value]
    /\ boot' = [boot EXCEPT !.testOld = mem[boot.stack_ptr + TestOffset]]
    /\ StartGoto("test_check")
    /\ UNCHANGED cpsrI

\* if( *test_addr == test_value ) *test_addr = 0x4000532C;                601-608
Start_TestCheck ==
    /\ InStart("test_check")
    /\ mem' = IF mem[boot.stack_ptr + TestOffset] = test_value
                THEN [mem EXCEPT ![boot.stack_ptr + TestOffset] = RestoredPC]
                ELSE mem
    /\ boot' = boot
    /\ StartGoto("direct_test")
    /\ UNCHANGED cpsrI

\* if( stack_ptr[16] == 0x40000CC8 ) { ... task_func(NULL); }             615-639
Start_DirectTest ==
    /\ InStart("direct_test")
    /\ stk' = IF mem[boot.stack_ptr + TestOffset] = vPLCMain
                THEN Push(Goto("p_restore"), NewFrame("vPLCMain", "direct", NULL))
                ELSE Goto("p_restore")
    /\ UNCHANGED <<ulCriticalNesting, ulPortYieldRequired, ulPortInterruptNesting,
                   ICCPMR, cpsrI, hist, aux>>

\* vPortRestoreTaskContext();                                             643, 696
Start_CallRestore ==
    /\ InStart("p_restore") \/ InStart("u_restore")
    /\ boot' = [boot EXCEPT !.restore = TRUE]
    /\ stk' = Push(Goto("return0"), NewFrame("vPortRestoreTaskContext", "load", 0))
    /\ UNCHANGED <<ulCriticalNesting, ulPortYieldRequired, ulPortInterruptNesting,
                   ICCPMR, cpsrI, hist, ulPortTaskHasFPUContext, FPSCR, mem, cpu,
                   tcb, pxCurrentTCB, built, heap>>

\* return 0;                                                              705
Start_Return ==
    /\ InStart("return0")
    /\ boot' = [boot EXCEPT !.returned = TRUE]
    /\ stk' = [Below EXCEPT ![Len(stk) - 1].v = 0]
    /\ UNCHANGED <<ulCriticalNesting, ulPortYieldRequired, ulPortInterruptNesting,
                   ICCPMR, cpsrI, hist, ulPortTaskHasFPUContext, FPSCR, mem, cpu,
                   tcb, pxCurrentTCB, built, heap>>

\* vPortRestoreTaskContext (the port's assembly file): the context of the
\* current task is loaded and the task runs; nothing returns to the caller.
\* The priority mask follows the restored critical nesting count.
vPortRestoreTaskContext ==
    /\ At("vPortRestoreTaskContext", "load")
    /\ LET ctx == RestoreContext(mem, tcb[pxCurrentTCB])
       IN /\ ulPortTaskHasFPUContext' = ctx.fpu_context
          /\ ulCriticalNesting' = ctx.critical_nesting
          /\ ICCPMR' = IF ctx.critical_nesting = portNO_CRITICAL_NESTING
                         THEN portUNMASK_VALUE ELSE ulMaxAPIPriorityMask
          /\ cpu' = LoadContext(ctx)
          /\ FPSCR' = LoadFPSCR(ctx)
          /\ cpsrI' = (BitAnd(ctx.cpsr, portINTERRUPT_ENABLE_BIT) # 0)
          /\ stk' = <<[NewFrame("task", "first", pxCurrentTCB)
                         EXCEPT !.n0 = ctx.critical_nesting]>>
    /\ UNCHANGED <<ulPortYieldRequired, ulPortInterruptNesting, hist, mem,
                   tcb, pxCurrentTCB, boot, built, heap>>

\* The added state while a single started task runs: no frame is being built
\* and the scheduler start is over.
AuxRunning ==
    /\ ulPortTaskHasFPUContext = pdFALSE
    /\ FPSCR = 0
    /\ mem = <<>>
    /\ cpu = ResetCpu
    /\ tcb = <<>>
    /\ pxCurrentTCB = 1
    /\ boot = BootIdle
    /\ built = <<>>
    /\ HeapIdle

(***************************************************************************)
(* The running system: the first task has been started, its critical       *)
(* nesting count is 0 and all priorities are unmasked.                     *)
(***************************************************************************)
Init ==
    /\ ulCriticalNesting = portNO_CRITICAL_NESTING
    /\ ulPortYieldRequired = pdFALSE
    /\ ulPortInterruptNesting = 0
    /\ ICCPMR = portUNMASK_VALUE
    /\ cpsrI = FALSE
    /\ stk = <<TaskFrame>>
    /\ hist = [m0 |-> portUNMASK_VALUE, d0 |-> portNO_CRITICAL_NESTING, ne |-> 0, nx |-> 0]
    /\ AuxRunning

PortStep ==
    \/ Clear_Disable \/ Clear_Write \/ Clear_Enable
    \/ SetMask_Disable \/ SetMask_Test \/ SetMask_Write \/ SetMask_Enable \/ SetMask_Return
    \/ Enter_CallSetMask \/ Enter_Increment \/ Enter_Check \/ Enter_Return
    \/ Exit_Test \/ Exit_Decrement \/ Exit_TestZero \/ Exit_Return

Next ==
    \/ PortStep
    \/ Assert_Loop
    \/ ClearMask_Test \/ ClearMask_Return
    \/ Tick_Disable \/ Tick_Raise \/ Tick_Enable \/ Tick_CallIncrement
    \/ Tick_IncrementReturns \/ Tick_SetYield \/ Tick_ClearSource \/ Tick_Return
    \/ IrqEntry \/ Handler_Return \/ IrqExit
    \/ CallEnter \/ CallExit \/ CallSetMask \/ CallClearMask

Spec == Init /\ [][Next]_vars

(***************************************************************************)
(* A sequential run of the critical-section primitives: from any value of  *)
(* the mask register and of the counter, the code calls vPortEnterCritical *)
(* up to MaxN times and then vPortExitCritical up to once more than that,  *)
(* with no interrupt and no other use of the mask in between.  The run is  *)
(* made by a task or by the body of an interrupt handler.                  *)
(***************************************************************************)
StartMasks == {0, ulMaxAPIPriorityMask, portUNMASK_VALUE}
StartDepths == (0 .. MaxDepth) \cup {InitialCriticalNesting}

HandlerFrame == [fn |-> "IRQ", pc |-> "body", v |-> FastIrqPriority, w |-> FALSE,
                 open |-> <<>>, log |-> <<>>, n0 |-> 0, m0 |-> portUNMASK_VALUE, i0 |-> 0]

InitCS ==
    /\ ulCriticalNesting \in StartDepths
    /\ ICCPMR \in StartMasks
    /\ ulPortYieldRequired = pdFALSE
    /\ cpsrI \in BOOLEAN
    /\ \E inHandler \in BOOLEAN :
          /\ ulPortInterruptNesting = IF inHandler THEN 1 ELSE 0
          /\ stk = IF inHandler THEN <<TaskFrame, HandlerFrame>> ELSE <<TaskFrame>>
    /\ hist = [m0 |-> ICCPMR, d0 |-> ulCriticalNesting, ne |-> 0, nx |-> 0]
    /\ AuxRunning

CS_CallEnter ==
    /\ InContext
    /\ hist.nx = 0 /\ hist.ne < MaxN
    /\ hist' = [hist EXCEPT !.ne = @ + 1]
    /\ stk' = Push(stk, NewFrame("vPortEnterCritical", "mask", 0))
    /\ UNCHANGED <<ulCriticalNesting, ulPortYieldRequired, ulPortInterruptNesting, ICCPMR, cpsrI, aux>>

CS_CallExit ==
    /\ InContext
    /\ hist.nx <= hist.ne /\ hist.nx < MaxN
    /\ hist' = [hist EXCEPT !.nx = @ + 1]
    /\ stk' = Push(SetTop([Top EXCEPT !.open = IF @ = <<>> THEN @ ELSE SubSeq(@, 1, Len(@) - 1)]),
                   NewFrame("vPortExitCritical", "test", 0))
    /\ UNCHANGED <<ulCriticalNesting, ulPortYieldRequired, ulPortInterruptNesting, ICCPMR, cpsrI, aux>>

NextCS == PortStep \/ Assert_Loop \/ CS_CallEnter \/ CS_CallExit

SpecCS == InitCS /\ [][NextCS]_vars

(***************************************************************************)
(* A handler that may use the FromISR API requests a context switch        *)
(* (portYIELD_FROM_ISR sets ulPortYieldRequired).                          *)
(***************************************************************************)
Handler_YieldFromISR ==
    /\ At("IRQ", "body")
    /\ Top.v >= ulMaxAPIPriorityMask
    /\ ulPortYieldRequired' = pdTRUE
    /\ UNCHANGED <<ulCriticalNesting, ulPortInterruptNesting, ICCPMR, cpsrI, stk, hist, aux>>

NextYield == Next \/ Handler_YieldFromISR

SpecYield == Init /\ [][NextYield]_vars

(***************************************************************************)
(* vPortTaskUsesFPU: port.c 786-796, called by the code of a task.  The    *)
(* frame keeps in v the value of the flag at the call.                     *)
(***************************************************************************)
CallUsesFPU ==
    /\ At("task", "run")
    /\ stk' = Push(stk, NewFrame("vPortTaskUsesFPU", "set", ulPortTaskHasFPUContext))
    /\ UNCHANGED <<ulCriticalNesting, ulPortYieldRequired, ulPortInterruptNesting, ICCPMR, cpsrI, hist, aux>>

\* Faulty variant: the call toggles the flag
UsesFPU_SetFlag_Toggle ==
    /\ At("vPortTaskUsesFPU", "set")
    /\ ulPortTaskHasFPUContext' = IF ulPortTaskHasFPUContext = pdFALSE THEN pdTRUE ELSE pdFALSE
    /\ stk' = Goto("fpscr")
    /\ UNCHANGED <<ulCriticalNesting, ulPortYieldRequired, ulPortInterruptNesting, ICCPMR,
                   cpsrI, hist, FPSCR, mem, cpu, tcb, pxCurrentTCB, boot, built, heap>>

\* ulPortTaskHasFPUContext = pdTRUE;                                      792
UsesFPU_SetFlag ==
    /\ At("vPortTaskUsesFPU", "set")
    /\ ulPortTaskHasFPUContext' = pdTRUE
    /\ stk' = Goto("fpscr")
    /\ UNCHANGED <<ulCriticalNesting, ulPortYieldRequired, ulPortInterruptNesting, ICCPMR,
                   cpsrI, hist, FPSCR, mem, cpu, tcb, pxCurrentTCB, boot, built, heap>>

\* FMXR FPSCR, ulInitialFPSCR  (ulInitialFPSCR = 0)                        788, 795
UsesFPU_InitFPSCR ==
    /\ At("vPortTaskUsesFPU", "fpscr")
    /\ FPSCR' = 0
    /\ stk' = Goto("ret")
    /\ UNCHANGED <<ulCriticalNesting, ulPortYieldRequired, ulPortInterruptNesting, ICCPMR,
                   cpsrI, hist, ulPortTaskHasFPUContext, mem, cpu, tcb, pxCurrentTCB,
                   boot, built, heap>>

UsesFPU_Return ==
    /\ At("vPortTaskUsesFPU", "ret")
    /\ stk' = Below
    /\ UNCHANGED <<ulCriticalNesting, ulPortYieldRequired, ulPortInterruptNesting, ICCPMR, cpsrI, hist, aux>>

NextFPU == Next \/ CallUsesFPU \/ UsesFPU_SetFlag \/ UsesFPU_InitFPSCR \/ UsesFPU_Return

SpecFPU == Init /\ [][NextFPU]_vars

(***************************************************************************)
(* The context switch of a yield (portSAVE_CONTEXT, vTaskSwitchContext,    *)
(* portRESTORE_CONTEXT).  The save pushes, on the stack of the running     *)
(* task, the return state (program counter below processor status), R14    *)
(* and R12-R0, ulCriticalNesting, the floating point block when            *)
(* ulPortTaskHasFPUContext is set, and the flag, and stores the stack      *)
(* pointer in the task's control block.  hist keeps, per task, the frame   *)
(* of its code and the registers it had when it was switched out.          *)
(***************************************************************************)
FpuBank == 64          \* words of D0-D31
Patterns == {1}        \* register contents a task computes

\* the words of a saved context, from the lowest address up
ContextWords(flag, fpscr, nesting) ==
    <<flag>>
    \o (IF flag # portNO_FLOATING_POINT_CONTEXT THEN <<fpscr>> \o cpu.fpu ELSE <<>>)
    \o <<nesting>> \o cpu.r \o <<cpu.pc, cpu.cpsr>>

Snapshot ==
    [r |-> cpu.r, pc |-> cpu.pc, cpsr |-> cpu.cpsr, sp |-> cpu.sp,
     nesting |-> ulCriticalNesting, flag |-> ulPortTaskHasFPUContext,
     fpu |-> IF ulPortTaskHasFPUContext # pdFALSE THEN <<FPSCR>> \o cpu.fpu ELSE <<>>]

\* the code of the running task opens a critical section
SwitchDepth == 1       \* sections a task keeps open across a switch
Task_EnterCritical ==
    /\ At("task", "run")
    /\ Len(Top.open) < SwitchDepth
    /\ stk' = Push(stk, NewFrame("vPortEnterCritical", "mask", 0))
    /\ UNCHANGED <<ulCriticalNesting, ulPortYieldRequired, ulPortInterruptNesting, ICCPMR, cpsrI, hist, aux>>

\* the code of the running task computes: its registers change
Task_Compute ==
    /\ At("task", "run")
    /\ \E p \in Patterns :
          /\ cpu' = [cpu EXCEPT
                       !.r = [i \in 1 .. GeneralRegisters |-> 100 * p + 10 * pxCurrentTCB + i],
                       !.fpu = IF ulPortTaskHasFPUContext # pdFALSE
                                 THEN [i \in 1 .. FpuBank |-> 1000 * p + pxCurrentTCB]
                                 ELSE @]
          /\ FPSCR' = IF ulPortTaskHasFPUContext # pdFALSE THEN p ELSE FPSCR
    /\ cpu' # cpu
    /\ UNCHANGED <<ulCriticalNesting, ulPortYieldRequired, ulPortInterruptNesting,
                   ICCPMR, cpsrI, stk, hist, ulPortTaskHasFPUContext, mem, tcb,
                   pxCurrentTCB, boot, built, heap>>

\* Faulty variant: the save never pushes the floating point block
Yield_Save_NoFpuBlock ==
    /\ At("task", "run")
    /\ LET words == <<ulPortTaskHasFPUContext, ulCriticalNesting>> \o cpu.r
                     \o <<cpu.pc, cpu.cpsr>>
           base == cpu.sp - Len(words)
       IN /\ mem' = [a \in Addresses |->
                       IF a \in base .. (cpu.sp - 1) THEN words[a - base + 1] ELSE mem[a]]
          /\ tcb' = [tcb EXCEPT ![pxCurrentTCB] = base]
    /\ hist' = [hist EXCEPT !.frames[pxCurrentTCB] = Top,
                            !.saved[pxCurrentTCB] = Snapshot]
    /\ cpsrI' = TRUE
    /\ stk' = <<NewFrame("vTaskSwitchContext", "select", 0)>>
    /\ UNCHANGED <<ulCriticalNesting, ulPortYieldRequired, ulPortInterruptNesting,
                   ICCPMR, ulPortTaskHasFPUContext, FPSCR, cpu, pxCurrentTCB, boot, built, heap>>

\* portSAVE_CONTEXT, entered by the yield of the running task
Yield_Save ==
    /\ At("task", "run")
    /\ LET words == ContextWords(ulPortTaskHasFPUContext, FPSCR, ulCriticalNesting)
           base == cpu.sp - Len(words)
       IN /\ mem' = [a \in Addresses |->
                       IF a \in base .. (cpu.sp - 1) THEN words[a - base + 1] ELSE mem[a]]
          /\ tcb' = [tcb EXCEPT ![pxCurrentTCB] = base]
    /\ hist' = [hist EXCEPT !.frames[pxCurrentTCB] = Top,
                            !.saved[pxCurrentTCB] = Snapshot]
    /\ cpsrI' = TRUE
    /\ stk' = <<NewFrame("vTaskSwitchContext", "select", 0)>>
    /\ UNCHANGED <<ulCriticalNesting, ulPortYieldRequired, ulPortInterruptNesting,
                   ICCPMR, ulPortTaskHasFPUContext, FPSCR, cpu, pxCurrentTCB, boot, built, heap>>

\* vTaskSwitchContext: the scheduler selects the task to run next
Yield_Select ==
    /\ At("vTaskSwitchContext", "select")
    /\ \E next \in 1 .. NumTasks : pxCurrentTCB' = next
    /\ stk' = <<NewFrame("vPortRestoreTaskContext", "resume", 0)>>
    /\ UNCHANGED <<ulCriticalNesting, ulPortYieldRequired, ulPortInterruptNesting,
                   ICCPMR, cpsrI, hist, ulPortTaskHasFPUContext, FPSCR, mem, cpu, tcb,
                   boot, built, heap>>

\* portRESTORE_CONTEXT: the context of the selected task is loaded
Yield_Restore ==
    /\ At("vPortRestoreTaskContext", "resume")
    /\ LET ctx == RestoreContext(mem, tcb[pxCurrentTCB])
       IN /\ ulPortTaskHasFPUContext' = ctx.fpu_context
          /\ ulCriticalNesting' = ctx.critical_nesting
          /\ ICCPMR' = IF ctx.critical_nesting = portNO_CRITICAL_NESTING
                         THEN portUNMASK_VALUE ELSE ulMaxAPIPriorityMask
          /\ cpu' = LoadContext(ctx)
          /\ FPSCR' = LoadFPSCR(ctx)
          /\ cpsrI' = (BitAnd(ctx.cpsr, portINTERRUPT_ENABLE_BIT) # 0)
    /\ stk' = Goto("loaded")
    /\ UNCHANGED <<ulPortYieldRequired, ulPortInterruptNesting, hist, mem, tcb,
                   pxCurrentTCB, boot, built, heap>>

\* the code of the task goes on where it was switched out
Yield_Resume ==
    /\ At("vPortRestoreTaskContext", "loaded")
    /\ stk' = <<hist.frames[pxCurrentTCB]>>
    /\ UNCHANGED <<ulCriticalNesting, ulPortYieldRequired, ulPortInterruptNesting,
                   ICCPMR, cpsrI, hist, aux>>

\* The tasks exist, each with the frame pxPortInitialiseStack built for it, and
\* the first of them has been started.
SwitchTop(k) == StackBase(k) + StackWords - 1
RECURSIVE BuildTasks(_)
BuildTasks(k) ==
    IF k = 0 THEN [a \in Addresses |-> MemoryFill]
    ELSE pxPortInitialiseStack(BuildTasks(k - 1), SwitchTop(k),
                               vPLCMain + ((k - 1) % 2), k).mem
SwitchMemory == BuildTasks(NumTasks)
NeverSaved == [r |-> <<>>, pc |-> 0, cpsr |-> 0, sp |-> 0, nesting |-> 0, flag |-> 0,
               fpu |-> <<>>]

InitSwitch ==
    /\ ulPortYieldRequired = pdFALSE
    /\ ulPortInterruptNesting = 0
    /\ mem = SwitchMemory
    /\ tcb = [k \in 1 .. NumTasks |-> SwitchTop(k) - 19]
    /\ pxCurrentTCB = 1
    /\ LET ctx == RestoreContext(mem, tcb[1])
       IN /\ cpu = [r |-> ctx.r, pc |-> ctx.pc, cpsr |-> ctx.cpsr, sp |-> ctx.sp,
                    fpu |-> [i \in 1 .. FpuBank |-> 0]]
          /\ ulCriticalNesting = ctx.critical_nesting
          /\ ulPortTaskHasFPUContext = ctx.fpu_context
    /\ FPSCR = 0
    /\ ICCPMR = portUNMASK_VALUE
    /\ cpsrI = FALSE
    /\ boot = BootIdle
    /\ built = <<>>
    /\ HeapIdle
    /\ stk = <<TaskFrame>>
    /\ hist = [frames |-> [k \in 1 .. NumTasks |-> TaskFrame],
               saved |-> [k \in 1 .. NumTasks |-> NeverSaved]]

NextSwitch ==
    \/ PortStep
    \/ Task_EnterCritical \/ CallExit
    \/ CallUsesFPU \/ UsesFPU_SetFlag \/ UsesFPU_InitFPSCR \/ UsesFPU_Return
    \/ Task_Compute
    \/ Yield_Save \/ Yield_Select \/ Yield_Restore \/ Yield_Resume

SpecSwitch == InitSwitch /\ [][NextSwitch]_vars

(***************************************************************************)
(* From reset to the first task: ulCriticalNesting holds its initialiser,  *)
(* no task exists, the memory holds whatever it held.                      *)
(***************************************************************************)

InitBoot ==
    /\ ulCriticalNesting = InitialCriticalNesting
    /\ ulPortYieldRequired = pdFALSE
    /\ ulPortInterruptNesting = 0
    /\ ICCPMR = 0
    /\ cpsrI = TRUE
    /\ ulPortTaskHasFPUContext = pdFALSE
    /\ FPSCR = 0
    /\ mem = [a \in Addresses |-> MemoryFill]
    /\ cpu = ResetCpu
    /\ tcb = <<>>
    /\ pxCurrentTCB = 0
    /\ boot = BootIdle
    /\ built = <<>>
    /\ HeapIdle
    /\ hist = [m0 |-> 0, d0 |-> InitialCriticalNesting, ne |-> 0, nx |-> 0]
    /\ stk = <<[fn |-> "main", pc |-> "create", v |-> 0, w |-> FALSE, open |-> <<>>,
                log |-> <<>>, n0 |-> InitialCriticalNesting, m0 |-> 0, i0 |-> 0]>>

NextBoot ==
    \/ CreateTask \/ Main_StartScheduler
    \/ Start_SavePriority \/ Start_ProbePriority \/ Start_ShiftPriority
    \/ Start_AssertPriority \/ Start_RestorePriority
    \/ Start_ReadAPSR \/ Start_AssertMode \/ Start_TestMode \/ Start_TestBinaryPoint
    \/ Start_DisableIrq \/ Start_SetupTick \/ Start_Inspect \/ Start_Simulate
    \/ Start_TestWrite \/ Start_TestCheck \/ Start_DirectTest
    \/ Start_CallRestore \/ Start_Return
    \/ vPortRestoreTaskContext
    \/ Assert_Loop

SpecBoot == InitBoot /\ [][NextBoot]_vars

(***************************************************************************)
(* The scheduler start on its own: the tasks have been created, the core   *)
(* may or may not take IRQs when main calls vTaskStartScheduler, the       *)
(* priority mask is whatever the start-up code left, and the words that    *)
(* follow a stack hold whatever the allocator put there.  The tick source  *)
(* interrupts only once configSETUP_TICK_INTERRUPT has set it up.          *)
(***************************************************************************)
BeyondContents == {MemoryFill, vPLCMain}

\* what task creation recorded of each task; neither the pointer returned nor
\* the addresses written depend on what the memory held
RECURSIVE CreatedTasks(_)
CreatedTasks(k) ==
    IF k = 0 THEN <<>>
    ELSE LET entry == vPLCMain + ((k - 1) % 2)
             made == pxPortInitialiseStack([a \in Addresses |-> MemoryFill],
                                           SwitchTop(k), entry, k)
         IN Append(CreatedTasks(k - 1),
                   [top |-> SwitchTop(k), code |-> entry, param |-> k, ret |-> made.p,
                    written |-> made.written, before |-> BuildTasks(k - 1)])

InitStart ==
    /\ ulCriticalNesting = InitialCriticalNesting
    /\ ulPortYieldRequired = pdFALSE
    /\ ulPortInterruptNesting = 0
    /\ ICCPMR \in StartMasks
    /\ cpsrI \in BOOLEAN
    /\ ulPortTaskHasFPUContext = pdFALSE
    /\ FPSCR = 0
    /\ \E w \in BeyondContents :
          mem = [a \in Addresses |->
                   IF \E k \in 1 .. NumTasks : a \in StackRegion(k)
                     THEN SwitchMemory[a] ELSE w]
    /\ cpu = ResetCpu
    /\ tcb = [k \in 1 .. NumTasks |-> SwitchTop(k) - 19]
    /\ pxCurrentTCB = 0
    /\ boot = BootIdle
    /\ built = CreatedTasks(NumTasks)
    /\ HeapIdle
    /\ hist = [m0 |-> 0, d0 |-> InitialCriticalNesting, ne |-> 0, nx |-> 0]
    /\ stk = <<[fn |-> "main", pc |-> "create", v |-> 0, w |-> FALSE, open |-> <<>>,
                log |-> <<>>, n0 |-> InitialCriticalNesting, m0 |-> 0, i0 |-> 0]>>

\* the tick interrupt is taken: FreeRTOS_IRQ_Handler calls FreeRTOS_Tick_Handler
Tick_Irq ==
    /\ boot.tick
    /\ Deliverable(TickPriority)
    /\ \E reenable \in BOOLEAN : cpsrI' = ~reenable
    /\ ulPortInterruptNesting' = ulPortInterruptNesting + 1
    /\ stk' = Push(Push(stk, NewFrame("IRQ", "exit", TickPriority)),
                   [NewFrame("FreeRTOS_Tick_Handler", "disable", 0)
                       EXCEPT !.i0 = ulPortInterruptNesting + 1])
    /\ UNCHANGED <<ulCriticalNesting, ulPortYieldRequired, ICCPMR, hist, aux>>

TickStep ==
    \/ Tick_Disable \/ Tick_Raise \/ Tick_Enable \/ Tick_CallIncrement
    \/ Tick_IncrementReturns \/ Tick_SetYield
    \/ Clear_Disable \/ Clear_Write \/ Clear_Enable
    \/ Tick_ClearSource \/ Tick_Return

NextStart ==
    \/ Main_StartScheduler
    \/ Start_SavePriority \/ Start_ProbePriority \/ Start_ShiftPriority
    \/ Start_AssertPriority \/ Start_RestorePriority
    \/ Start_ReadAPSR \/ Start_AssertMode \/ Start_TestMode \/ Start_TestBinaryPoint
    \/ Start_DisableIrq \/ Start_SetupTick \/ Start_Inspect \/ Start_Simulate
    \/ Start_TestWrite \/ Start_TestCheck \/ Start_DirectTest
    \/ Start_CallRestore \/ Start_Return
    \/ vPortRestoreTaskContext
    \/ Assert_Loop
    \/ Tick_Irq \/ TickStep \/ IrqExit

SpecStart == InitStart /\ [][NextStart]_vars

(***************************************************************************)
(* Properties.                                                             *)
(***************************************************************************)
Frames == {stk[k] : k \in 1 .. Len(stk)}

\* the code of the task or handler is between two calls
AtRest == InContext

\* C1: vPortEnterCritical, called in any state, returns with ulCriticalNesting
\* exactly one greater than at entry and with the priority mask equal to
\* configMAX_API_CALL_INTERRUPT_PRIORITY << portPRIORITY_SHIFT; when the counter
\* was zero at entry there is no state of the call with the counter >= 1 and
\* the mask not raised.
C1_EnterCritical ==
    /\ At("vPortEnterCritical", "ret") =>
          /\ ulCriticalNesting = Top.n0 + 1
          /\ ICCPMR = ulMaxAPIPriorityMask
    /\ \A f \in Frames :
          (f.fn = "vPortEnterCritical" /\ f.n0 = 0 /\ ulCriticalNesting >= 1)
              => ICCPMR = ulMaxAPIPriorityMask

\* C1 witness: a call that found the counter at zero and the mask not raised
\* has returned.
C1_Witness ==
    /\ At("vPortEnterCritical", "ret")
    /\ Top.n0 = 0 /\ Top.m0 # ulMaxAPIPriorityMask
    /\ ulCriticalNesting = 1

\* C2: vPortExitCritical, called with ulCriticalNesting > 0, decrements the
\* counter by exactly one; it writes portUNMASK_VALUE to the priority mask
\* register if and only if the counter is zero after the decrement, and leaves
\* the register untouched when the counter is still positive.
C2_ExitCritical ==
    (At("vPortExitCritical", "ret") /\ Top.n0 > 0) =>
        /\ ulCriticalNesting = Top.n0 - 1
        /\ Top.w <=> (ulCriticalNesting = 0)
        /\ Top.w => ICCPMR = portUNMASK_VALUE
        /\ ~Top.w => ICCPMR = Top.m0

\* C2 witnesses: an exit that reached zero from a mask that was not the unmask
\* value has returned.
C2_Witness ==
    /\ At("vPortExitCritical", "ret")
    /\ Top.n0 = 1 /\ Top.w /\ Top.m0 # portUNMASK_VALUE

\* C3 as stated: for every start mask m and depth d, N enters followed by N
\* exits leave the mask register equal to m and the counter equal to d.
C3_RoundTripAnyMask ==
    (AtRest /\ hist.ne >= 1 /\ hist.nx = hist.ne) =>
        /\ ICCPMR = hist.m0
        /\ ulCriticalNesting = hist.d0

\* C3 amended: N enters followed by N exits leave the counter equal to d, and
\* leave the mask register at the value that goes with d: the unmask value
\* when d = 0, the raised value when d > 0 (so it equals m exactly when m was
\* that value).
C3_RoundTrip ==
    (AtRest /\ hist.ne >= 1 /\ hist.nx = hist.ne) =>
        /\ ulCriticalNesting = hist.d0
        /\ ICCPMR = IF hist.d0 = 0 THEN portUNMASK_VALUE ELSE ulMaxAPIPriorityMask
        /\ (ICCPMR = hist.m0) <=>
              (hist.m0 = IF hist.d0 = 0 THEN portUNMASK_VALUE ELSE ulMaxAPIPriorityMask)

\* C3 witness: MaxN enters and MaxN exits, from a mask that is not restored.
C3_Witness ==
    /\ AtRest /\ hist.ne = MaxN /\ hist.nx = MaxN
    /\ hist.d0 = 0 /\ hist.m0 = 0

\* C5: ulCriticalNesting never underflows, and vPortExitCritical called while
\* the counter is zero changes neither the counter nor the priority mask
\* register.
C5_NoUnderflow ==
    /\ ulCriticalNesting >= 0
    /\ (At("vPortExitCritical", "ret") /\ Top.n0 = 0) =>
          /\ ulCriticalNesting = 0
          /\ ~Top.w
          /\ ICCPMR = Top.m0

\* C5 witness: an exit called at zero, after the enters were all matched, has
\* returned.
C5_Witness ==
    /\ At("vPortExitCritical", "ret")
    /\ Top.n0 = 0
    /\ hist.ne >= 1 /\ hist.nx = hist.ne + 1

IrqDepth == Cardinality({k \in 1 .. Len(stk) : stk[k].fn = "IRQ"})
OnlyCritical(open) == \A k \in 1 .. Len(open) : open[k] = "crit"

\* C4: from ulCriticalNesting = 0 with the mask unmasked, after every completed
\* call in any sequence of vPortEnterCritical / vPortExitCritical calls made by
\* task code, the priority mask register holds the raised value or the unmask
\* value, and the raised value if and only if ulCriticalNesting > 0;
\* ulPortInterruptNesting is not changed by these calls (it counts the active
\* interrupt handlers and nothing else) and is never negative.
C4_MaskFollowsNesting ==
    /\ ( /\ Len(stk) = 2
         /\ Top.fn \in {"vPortEnterCritical", "vPortExitCritical"} /\ Top.pc = "ret"
         /\ OnlyCritical(stk[1].open) ) =>
            /\ ICCPMR \in {ulMaxAPIPriorityMask, portUNMASK_VALUE}
            /\ (ICCPMR = ulMaxAPIPriorityMask) <=> (ulCriticalNesting > 0)
            /\ ulPortInterruptNesting = Top.i0
    /\ ulPortInterruptNesting = IrqDepth
    /\ ulPortInterruptNesting >= 0

\* C4 witness: the task's outermost exit returns, the counter back at zero.
C4_Witness ==
    /\ Len(stk) = 2
    /\ At("vPortExitCritical", "ret")
    /\ Top.n0 = 1 /\ stk[1].open = <<>>
    /\ ulCriticalNesting = 0 /\ ICCPMR = portUNMASK_VALUE

EnterInHandler(f) == f.fn = "vPortEnterCritical" /\ f.i0 # 0 /\ f.pc = "ret"
AssertedAt(k) == k < Len(stk) /\ stk[k + 1].fn = "vAssertCalled"

\* C6 as stated: whenever vPortEnterCritical is called while an interrupt
\* handler is active, the call invokes the assertion hook, whatever the value
\* of ulCriticalNesting at the time of the call.
C6_AssertInAnyHandlerCall ==
    \A k \in 1 .. Len(stk) : EnterInHandler(stk[k]) => AssertedAt(k)

\* C6 amended: a call of vPortEnterCritical made while an interrupt handler is
\* active invokes the assertion hook if and only if ulCriticalNesting was zero
\* at the call (the increment took it to exactly 1); a call made with the
\* counter already positive returns without any assertion.
C6_AssertOnFirstLevelOnly ==
    \A k \in 1 .. Len(stk) :
        EnterInHandler(stk[k]) => (AssertedAt(k) <=> stk[k].n0 = 0)

\* C6 witnesses: a handler's call that found the counter positive is about to
\* return, no assertion made.
C6_Witness ==
    /\ At("vPortEnterCritical", "ret")
    /\ Top.i0 = 1 /\ Top.n0 >= 1

\* the statements between a portCPU_IRQ_DISABLE() and the end of the matching
\* portCPU_IRQ_ENABLE(): the mask register is read or written only here
InMaskBracket(f) ==
    \/ f.fn = "ulPortSetInterruptMask" /\ f.pc \in {"test", "write", "enable"}
    \/ HasClearMacro(f.fn) /\ f.pc \in {"clr_write", "clr_enable"}
    \/ f.fn = "FreeRTOS_Tick_Handler" /\ f.pc \in {"raise", "enable"}

\* C7: every read or write of the priority mask register by this layer happens
\* while CPU-core interrupts are disabled, they are re-enabled only after the
\* access has completed, and no interrupt handler runs between the read and
\* the write of one mask update (the frame making the update stays the running
\* frame until it has re-enabled).
C7_MaskAccessBracketed ==
    \A k \in 1 .. Len(stk) : InMaskBracket(stk[k]) => (k = Len(stk) /\ cpsrI)

\* C7 witness: a handler that re-enabled IRQs is between the read and the write
\* of a mask update while the tick could otherwise be taken.
C7_Witness ==
    /\ At("ulPortSetInterruptMask", "write")
    /\ ICCPMR = portUNMASK_VALUE
    /\ ulPortInterruptNesting = 1

\* C8 as stated: the increment of ulCriticalNesting by vPortEnterCritical and
\* the decrement by vPortExitCritical are performed while CPU-core interrupts
\* are disabled.
C8_MutationWithIrqsOff ==
    (At("vPortEnterCritical", "inc") \/ At("vPortExitCritical", "dec")) => cpsrI

\* C8 amended: both mutations are performed while the priority mask holds the
\* raised value, not while CPU-core interrupts are disabled: the increment
\* runs after ulPortSetInterruptMask has re-enabled CPU-core interrupts.
C8_MutationUnderMask ==
    /\ At("vPortEnterCritical", "inc") => (ICCPMR = ulMaxAPIPriorityMask /\ ~cpsrI)
    /\ At("vPortExitCritical", "dec") => ICCPMR = ulMaxAPIPriorityMask

\* C8 witness: an exit is about to decrement.
C8_Witness ==
    /\ At("vPortExitCritical", "dec")
    /\ ulCriticalNesting = 1 /\ ~cpsrI

TickLogs == {<<"raise", "tick", "unmask", "clear">>,
             <<"raise", "tick", "yield", "unmask", "clear">>}

\* C9: FreeRTOS_Tick_Handler raises the priority mask, calls
\* xTaskIncrementTick, sets the pending-switch flag if that call asked for a
\* switch, writes the unmask value, then clears the timer's interrupt source,
\* in this order and no other; the mask holds the raised value during the whole
\* of xTaskIncrementTick and the unmask value when the handler returns.
C9_TickOrder ==
    \A k \in 1 .. Len(stk) :
        stk[k].fn = "FreeRTOS_Tick_Handler" =>
            /\ stk[k].pc = "inTick" => ICCPMR = ulMaxAPIPriorityMask
            /\ (stk[k].pc = "ret" /\ k = Len(stk)) =>
                  /\ ICCPMR = portUNMASK_VALUE
                  /\ stk[k].log \in TickLogs
                  /\ (Len(stk[k].log) = 5) <=> (stk[k].v # pdFALSE)

\* C9 witness: a handler whose xTaskIncrementTick asked for a switch returns.
C9_Witness ==
    /\ At("FreeRTOS_Tick_Handler", "ret")
    /\ Top.v = pdTRUE /\ ulPortYieldRequired = pdTRUE

\* the task is between the increment of a vPortEnterCritical and the decrement
\* of the matching vPortExitCritical
TaskInCritical ==
    \/ \E k \in 1 .. Len(stk[1].open) : stk[1].open[k] = "crit"
    \/ /\ Len(stk) >= 2
       /\ \/ stk[2].fn = "vPortEnterCritical" /\ stk[2].pc \in {"check", "ret"}
          \/ /\ stk[2].fn = "vPortExitCritical" /\ stk[2].pc \in {"test", "dec"}
             /\ stk[2].n0 > 0

InsideIncrementTick == {k \in 1 .. Len(stk) :
                           stk[k].fn = "FreeRTOS_Tick_Handler" /\ stk[k].pc = "inTick"}

\* C10: xTaskIncrementTick inside FreeRTOS_Tick_Handler never executes while a
\* task is between a vPortEnterCritical that took the counter from 0 to 1 and
\* the matching vPortExitCritical, and never while another invocation of the
\* handler is inside xTaskIncrementTick.
C10_TickExcluded ==
    /\ InsideIncrementTick # {} => ~TaskInCritical
    /\ Cardinality(InsideIncrementTick) <= 1

\* C10 witness: the tick interrupted a task that had just called
\* vPortEnterCritical, and is inside xTaskIncrementTick.
C10_Witness ==
    /\ InsideIncrementTick # {}
    /\ Len(stk) >= 2 /\ stk[2].fn = "vPortEnterCritical" /\ stk[2].pc = "mask"

(***************************************************************************)
(* The frame of a new task.                                                *)
(***************************************************************************)
Built == 1 .. Len(built)
Min(S) == CHOOSE x \in S : \A y \in S : x <= y
FirstTaskRuns == At("task", "first")

\* C13: the frame pxPortInitialiseStack builds, restored without the task
\* having run, loads the program counter with pxCode, R0 with pvParameters and
\* ulCriticalNesting with 0, in place of the 9999 it holds before the first
\* task starts; the frames of two tasks do not share a word, each holds its
\* own parameter, and building a frame leaves the frames built before intact.
C13_InitialContext ==
    /\ \A k \in Built :
          LET ctx == RestoreContext(mem, tcb[k])
          IN /\ ctx.pc = built[k].code
             /\ ctx.r[1] = built[k].param
             /\ ctx.critical_nesting = 0
    /\ \A j, k \in Built :
          j < k => /\ built[j].written \cap built[k].written = {}
                   /\ \A a \in built[j].written : built[k].before[a] = mem[a]
    /\ IF FirstTaskRuns
         THEN /\ cpu.pc = built[pxCurrentTCB].code
              /\ cpu.r[1] = built[pxCurrentTCB].param
              /\ ulCriticalNesting = 0
         ELSE ulCriticalNesting = InitialCriticalNesting

\* C13 witness: two tasks were built with the parameters NULL and 2 and the
\* second one is the first to run, with its own parameter in R0.
C13_Witness ==
    /\ FirstTaskRuns /\ Len(built) = 2 /\ pxCurrentTCB = 2
    /\ built[1].param = NULL /\ built[2].param = 2 /\ cpu.r[1] = 2

\* C14: the processor status word of the frame has the mode bits of System
\* mode (0x1f), the IRQ disable and FIQ disable bits clear, the Thumb bit set
\* exactly when bit 0 of pxCode is 1, and no other bit set.
C14_InitialStatus ==
    \A k \in Built :
       LET spsr == RestoreContext(mem, tcb[k]).cpsr
       IN /\ BitAnd(spsr, portAPSR_MODE_BITS_MASK) = portINITIAL_SPSR
          /\ BitAnd(spsr, portINTERRUPT_ENABLE_BIT) = 0
          /\ BitAnd(spsr, FiqDisableBit) = 0
          /\ (BitAnd(spsr, portTHUMB_MODE_BIT) # 0) <=> (built[k].code % 2 = 1)
          /\ spsr = BitAnd(spsr, portAPSR_MODE_BITS_MASK + portTHUMB_MODE_BIT)

\* C14 witness: a task with an ARM entry and a task with a Thumb entry exist.
C14_Witness ==
    /\ Len(built) = 2
    /\ built[1].code % 2 = 0 /\ built[2].code % 2 = 1
    /\ mem[tcb[2] + 17] = portINITIAL_SPSR + portTHUMB_MODE_BIT

\* C15: the pointer pxPortInitialiseStack returns is the lowest address it
\* writes, and it writes exactly the 20 words from the returned pointer up to
\* the pxTopOfStack it was given; every other word of the memory is as before.
C15_WrittenRange ==
    /\ \A k \in Built :
          /\ built[k].ret = Min(built[k].written)
          /\ built[k].written = built[k].ret .. built[k].top
          /\ Cardinality(built[k].written) = 20
    /\ (At("main", "create") /\ built # <<>>) =>
          \A a \in Addresses \ built[Len(built)].written :
             mem[a] = built[Len(built)].before[a]

\* C15 witness: a frame was built below a top that is not the last word of
\* the stack; the word above the top is as it was.
C15_Witness ==
    /\ At("main", "create") /\ Len(built) = 1
    /\ built[1].top = StackBase(1) + StackWords - 2
    /\ mem[built[1].top + 1] = MemoryFill

\* C16: at word offsets from the returned pointer the frame holds the floating
\* point flag (0), the critical nesting count (1), R0 to R12 (2 to 14), R14
\* (15), the program counter (16) and the processor status (17); after the
\* flag, the count and 14 registers are popped the pointer is at the program
\* counter, with the processor status in the next word.
C16_FrameLayout ==
    /\ \A k \in Built :
          LET f == tcb[k]
          IN /\ mem[f] = portNO_FLOATING_POINT_CONTEXT
             /\ mem[f + 1] = portNO_CRITICAL_NESTING
             /\ mem[f + 2] = built[k].param
             /\ \A r \in 1 .. 12 : mem[f + 2 + r] = RegisterFill(r)
             /\ mem[f + 15] = portTASK_RETURN_ADDRESS
             /\ mem[f + 16] = built[k].code
             /\ mem[f + 17] \in {portINITIAL_SPSR, portINITIAL_SPSR + portTHUMB_MODE_BIT}
    /\ \A i \in 1 .. Len(stk) :
          (stk[i].fn = "xPortStartScheduler" /\ stk[i].pc \in {"test_write", "test_check"}) =>
             /\ boot.stack_ptr = tcb[pxCurrentTCB] + 16
             /\ mem[boot.stack_ptr] = built[pxCurrentTCB].code
             /\ mem[boot.stack_ptr + 1] = RestoreContext(mem, tcb[pxCurrentTCB]).cpsr

\* C16 witness: xPortStartScheduler has walked the frame of the second task.
C16_Witness ==
    /\ InStart("test_write") /\ pxCurrentTCB = 2
    /\ mem[boot.stack_ptr] = vPLCMain + 1

\* C17: the frame of a task that never called vPortTaskUsesFPU holds no
\* floating point registers: the flag at the returned pointer is
\* portNO_FLOATING_POINT_CONTEXT, the critical nesting count is the next word,
\* and the restore pops no floating point register.
C17_NoFloatingPointBlock ==
    /\ \A k \in Built :
          /\ mem[tcb[k]] = portNO_FLOATING_POINT_CONTEXT
          /\ built[k].top - tcb[k] + 1 < portFPU_REGISTER_WORDS
          /\ LET ctx == RestoreContext(mem, tcb[k])
             IN /\ ctx.fpu = <<>>
                /\ ctx.critical_nesting = mem[tcb[k] + 1]
                /\ ctx.pairAt = tcb[k] + 2 + GeneralRegisters
    /\ FirstTaskRuns => /\ ulPortTaskHasFPUContext = pdFALSE
                         /\ cpu.fpu = <<>>
                         /\ cpu.sp = tcb[pxCurrentTCB] + 18

\* C17 witness: the first task runs, restored with no floating point context.
C17_Witness ==
    /\ FirstTaskRuns /\ ulPortTaskHasFPUContext = pdFALSE
    /\ cpu.sp = built[pxCurrentTCB].top - 1

(***************************************************************************)
(* The scheduler start.                                                    *)
(***************************************************************************)
UserPath == {"u_disable", "u_tick", "u_inspect", "u_restore"}

TickHandlerStep == Top.fn = "FreeRTOS_Tick_Handler" /\ Len(stk') <= Len(stk)

\* C11: FreeRTOS_Tick_Handler sets ulPortYieldRequired exactly when
\* xTaskIncrementTick returned a value other than pdFALSE; no other statement
\* of the handler changes the flag, so a request that is already pending stays
\* pending; the handler does not switch and leaves the current task as it is.
C11_TickYieldFlag ==
    [][TickHandlerStep =>
         /\ Top.pc = "inTick" =>
               /\ Top'.pc = "setYield" <=> Top'.v # pdFALSE
               /\ Top'.pc \in {"setYield", "clr_disable"}
         /\ Top.pc = "setYield" => (Top.v # pdFALSE /\ ulPortYieldRequired' = pdTRUE)
         /\ Top.pc # "setYield" => ulPortYieldRequired' = ulPortYieldRequired
         /\ pxCurrentTCB' = pxCurrentTCB
         /\ ulPortInterruptNesting' = ulPortInterruptNesting
         /\ SubSeq(stk', 1, Len(stk) - 1) = Below]_vars

\* C11 witness: a handler that interrupted the tick handler requested a
\* switch, xTaskIncrementTick then returned pdFALSE, and the request is still
\* pending when the tick handler returns.
C11_Witness ==
    /\ At("FreeRTOS_Tick_Handler", "ret")
    /\ Top.v = pdFALSE /\ Top.log = <<"raise", "tick", "unmask", "clear">>
    /\ ulPortYieldRequired = pdTRUE

\* C12: a switch is requested only inside an interrupt and the request does
\* not switch; the switch (which consumes the request) happens only on the
\* step that takes ulPortInterruptNesting from 1 to 0, it does happen there
\* when a request is pending, and nothing is pending once the counter is 0.
C12_DeferredSwitch ==
    [][/\ (ulPortYieldRequired = pdFALSE /\ ulPortYieldRequired' # pdFALSE) =>
            /\ ulPortInterruptNesting > 0
            /\ ulPortInterruptNesting' = ulPortInterruptNesting
            /\ Len(stk') = Len(stk)
       /\ (ulPortYieldRequired # pdFALSE /\ ulPortYieldRequired' = pdFALSE) =>
            (ulPortInterruptNesting = 1 /\ ulPortInterruptNesting' = 0)
       /\ (ulPortInterruptNesting > 0 /\ ulPortInterruptNesting' = 0) =>
            ulPortYieldRequired' = pdFALSE
       /\ (ulPortInterruptNesting' > 0 /\ ulPortYieldRequired # pdFALSE) =>
            ulPortYieldRequired' # pdFALSE]_vars

\* C12 witness: a nested handler returns with a request pending; the exit
\* leaves the request for the outermost exit.
C12_Witness ==
    /\ At("IRQ", "exit") /\ ulPortInterruptNesting = 2
    /\ ulPortYieldRequired = pdTRUE

(***************************************************************************)
(* The floating point flag.                                                *)
(***************************************************************************)
UsesFPUStep == Top.fn = "vPortTaskUsesFPU" /\ Len(stk') <= Len(stk)

\* C18: vPortTaskUsesFPU sets ulPortTaskHasFPUContext and changes neither
\* ulCriticalNesting, ulPortYieldRequired, ulPortInterruptNesting nor the
\* priority mask; a second call leaves the flag set; no step of port.c takes
\* the flag from set to clear.
C18_UsesFPU ==
    [][/\ UsesFPUStep =>
            /\ Top.pc = "set" => ulPortTaskHasFPUContext' = pdTRUE
            /\ Top.pc # "set" => ulPortTaskHasFPUContext = pdTRUE
            /\ UNCHANGED <<ulCriticalNesting, ulPortYieldRequired,
                           ulPortInterruptNesting, ICCPMR>>
       /\ ulPortTaskHasFPUContext # pdFALSE => ulPortTaskHasFPUContext' # pdFALSE]_vars

\* C18 witness: the task called vPortTaskUsesFPU with the flag already set,
\* inside a critical section, and the call returns with the flag set.
C18_Witness ==
    /\ At("vPortTaskUsesFPU", "ret")
    /\ Top.v = pdTRUE /\ ulPortTaskHasFPUContext = pdTRUE
    /\ ulCriticalNesting = 1 /\ ICCPMR = ulMaxAPIPriorityMask

(***************************************************************************)
(* The context switch.                                                     *)
(***************************************************************************)
\* the context of the selected task is loaded and its code has not yet gone on
JustRestored == At("vPortRestoreTaskContext", "loaded")
SavedBefore == hist.saved[pxCurrentTCB] # NeverSaved

\* C19: a task that is switched back in has the critical nesting count, the
\* general purpose registers, the return state and, when its floating point
\* flag is set, the floating point registers it had when it was switched out,
\* whatever the tasks that ran in between did; a task switched in for the
\* first time starts from the frame pxPortInitialiseStack built.
C19_ContextRoundTrip ==
    JustRestored =>
       IF SavedBefore
         THEN LET was == hist.saved[pxCurrentTCB]
              IN /\ ulCriticalNesting = was.nesting
                 /\ ulPortTaskHasFPUContext = was.flag
                 /\ cpu.r = was.r /\ cpu.pc = was.pc /\ cpu.cpsr = was.cpsr
                 /\ cpu.sp = was.sp
                 /\ was.flag # pdFALSE => <<FPSCR>> \o cpu.fpu = was.fpu
                 /\ ICCPMR = IF was.nesting = 0 THEN portUNMASK_VALUE
                                                ELSE ulMaxAPIPriorityMask
         ELSE /\ ulCriticalNesting = 0
              /\ ulPortTaskHasFPUContext = pdFALSE

\* C19 witness: task 1 was switched out inside a critical section and with a
\* floating point context, task 2 ran and left the counter at 0, and task 1 is
\* back with its count and its floating point registers.
C19_Witness ==
    /\ JustRestored /\ pxCurrentTCB = 1
    /\ hist.saved[1] # NeverSaved /\ hist.saved[2] # NeverSaved
    /\ hist.saved[2].nesting = 0 /\ hist.saved[2].flag = pdFALSE
    /\ ulCriticalNesting = 1 /\ ulPortTaskHasFPUContext = pdTRUE
    /\ cpu.fpu[1] = 1000 + 1 /\ cpu.r[1] = 100 + 10 + 1

(***************************************************************************)
(* The checks and the order of the scheduler start.                        *)
(***************************************************************************)
StartFrames == {i \in 1 .. Len(stk) : stk[i].fn = "xPortStartScheduler"}
HookCalledBy(i) == i < Len(stk) /\ stk[i + 1].fn = "vAssertCalled"
HookRunning == \E i \in 1 .. Len(stk) : stk[i].fn = "vAssertCalled"
NothingStarted ==
    /\ ~boot.irqOff /\ ~boot.tick /\ ~boot.restore
    /\ \A i \in 1 .. Len(stk) : stk[i].fn \notin {"vPortRestoreTaskContext", "task"}
SubPriorityBits == boot.binaryPoint > portMAX_BINARY_POINT_VALUE
\* the shift loop is over (bit 0 is set) and the value is not the configured one
PriorityBitsMismatch ==
    /\ BitAnd(boot.ucMaxPriorityValue, portBIT_0_SET) = portBIT_0_SET
    /\ boot.ucMaxPriorityValue # portLOWEST_INTERRUPT_PRIORITY

\* C21: when the binary point register leaves sub-priority bits the start
\* does not disable IRQs, does not set up the tick and does not call
\* vPortRestoreTaskContext, and xPortStartScheduler returns 0 to its caller;
\* it returns in no other case.
C21_BinaryPointStops ==
    /\ SubPriorityBits =>
          /\ NothingStarted
          /\ \A i \in StartFrames : stk[i].pc = "return0"
          /\ StartFrames = {} => boot.returned
    /\ boot.returned => SubPriorityBits /\ At("main", "started") /\ Top.v = 0

\* C21 witness: the register read 3 and the call has returned to main.
C21_Witness ==
    /\ boot.binaryPoint = 3 /\ boot.returned /\ At("main", "started")

\* C22: every configuration error the start detects (priority bits, User
\* mode, sub-priority bits) calls the assertion hook, and the start neither
\* goes on nor returns after it.
C22_ErrorsReachHook ==
    /\ SubPriorityBits => HookRunning /\ ~boot.returned
    /\ (PriorityBitsMismatch /\ \E i \in StartFrames :
                                   stk[i].pc \notin {"prio_shift", "prio_assert"}) =>
          HookRunning /\ ~boot.returned
    /\ (boot.ulAPSR = portAPSR_USER_MODE /\ \E i \in StartFrames : stk[i].pc # "mode_assert") =>
          HookRunning /\ ~boot.returned

\* C23: when the priority bits read back, shifted until bit 0 is set, differ
\* from portLOWEST_INTERRUPT_PRIORITY, the assertion of line 444 calls the
\* hook and nothing of the start happens: no tick, no restore, no task, no
\* return.
C23_PriorityBitsChecked ==
    PriorityBitsMismatch =>
       /\ NothingStarted /\ ~boot.returned
       /\ \A i \in StartFrames :
             /\ stk[i].pc \in {"prio_shift", "prio_assert", "prio_restore"}
             /\ stk[i].pc = "prio_restore" => HookCalledBy(i)
       /\ StartFrames # {}

\* C23 witness: the controller implements 5 priority bits (0xF8 read back,
\* 31 after the shifts) and the hook runs.
C23_Witness ==
    /\ boot.priorityReg = 248 /\ boot.ucMaxPriorityValue = 31
    /\ At("vAssertCalled", "loop")

\* C24: the start disables IRQs, then sets up the tick, then calls
\* vPortRestoreTaskContext; IRQs stay disabled in the core from the disable
\* until the restore has loaded the first task, and the tick handler runs
\* only over a task.
C24_StartOrder ==
    /\ boot.tick => boot.irqOff
    /\ boot.restore => boot.tick
    /\ (boot.irqOff /\ StartFrames # {}) => cpsrI
    /\ \A i \in 1 .. Len(stk) :
          /\ stk[i].fn = "task" => boot.restore
          /\ stk[i].fn \in {"IRQ", "FreeRTOS_Tick_Handler"} =>
                (stk[1].fn = "task" /\ StartFrames = {})

\* C24 witness: the first tick interrupt is taken while the first task runs.
C24_Witness ==
    /\ At("FreeRTOS_Tick_Handler", "disable")
    /\ Len(stk) = 3 /\ stk[1].fn = "task" /\ stk[1].pc = "first"
    /\ boot.irqOff /\ boot.tick /\ boot.restore

AllOnes == 0 - 1                 \* ~0UL as a 32-bit two's-complement pattern

Task_Return ==
    /\ At("task", "run")
    /\ stk' = Push(Goto("returned"), NewFrame("prvTaskExitError", "assert", 0))
    /\ UNCHANGED <<ulCriticalNesting, ulPortYieldRequired, ulPortInterruptNesting, ICCPMR, cpsrI, hist, aux>>

\* configASSERT( ulPortInterruptNesting == ~0UL ); portDISABLE_INTERRUPTS();
\* for( ;; ) {}  One statement per step; portDISABLE_INTERRUPTS() raises the
\* priority mask through ulPortSetInterruptMask.
prvTaskExitError ==
    /\ Top.fn = "prvTaskExitError"
    /\ stk' = CASE Top.pc = "assert" ->
                      IF ulPortInterruptNesting = AllOnes
                        THEN Goto("disable")
                        ELSE Push(Goto("disable"), NewFrame("vAssertCalled", "loop", 0))
                 [] Top.pc = "disable" ->
                      Push(Goto("loop"), NewFrame("ulPortSetInterruptMask", "disable", 0))
                 [] OTHER -> stk
    /\ UNCHANGED <<ulCriticalNesting, ulPortYieldRequired, ulPortInterruptNesting, ICCPMR, cpsrI, hist, aux>>

NextTrap == Next \/ Task_Return \/ prvTaskExitError

SpecTrap == Init /\ [][NextTrap]_vars

(***************************************************************************)
(* vPortEndScheduler: port.c 709-714, called from task-level code at any   *)
(* depth of critical nesting the enter/exit primitives can produce.        *)
(***************************************************************************)
EndAssertDepth == 1000           \* configASSERT( ulCriticalNesting == 1000UL )

EndDepths == {portNO_CRITICAL_NESTING, 1, EndAssertDepth - 1, EndAssertDepth,
              InitialCriticalNesting}

CallEndScheduler ==
    /\ At("task", "run")
    /\ stk' = Push(stk, NewFrame("vPortEndScheduler", "assert", 0))
    /\ UNCHANGED <<ulCriticalNesting, ulPortYieldRequired, ulPortInterruptNesting, ICCPMR, cpsrI, hist, aux>>

End_Assert ==
    /\ At("vPortEndScheduler", "assert")
    /\ stk' = IF ulCriticalNesting = EndAssertDepth
                THEN Goto("ret")
                ELSE Push(Goto("ret"), NewFrame("vAssertCalled", "loop", 0))
    /\ UNCHANGED <<ulCriticalNesting, ulPortYieldRequired, ulPortInterruptNesting, ICCPMR, cpsrI, hist, aux>>

End_Return ==
    /\ At("vPortEndScheduler", "ret")
    /\ stk' = Below
    /\ UNCHANGED <<ulCriticalNesting, ulPortYieldRequired, ulPortInterruptNesting, ICCPMR, cpsrI, hist, aux>>

\* A task, or the code before the scheduler starts, at a nesting depth that
\* nested calls of vPortEnterCritical have produced; the mask is raised
\* whenever a section is open.
InitEnd ==
    /\ ulCriticalNesting \in EndDepths
    /\ ICCPMR = IF ulCriticalNesting = portNO_CRITICAL_NESTING
                  THEN portUNMASK_VALUE ELSE ulMaxAPIPriorityMask
    /\ ulPortYieldRequired = pdFALSE
    /\ cpsrI = FALSE
    /\ ulPortInterruptNesting = 0
    /\ stk = <<TaskFrame>>
    /\ hist = [m0 |-> ICCPMR, d0 |-> ulCriticalNesting, ne |-> 0, nx |-> 0]
    /\ AuxRunning

NextEnd ==
    \/ PortStep \/ Assert_Loop
    \/ CS_CallEnter \/ CS_CallExit
    \/ CallEndScheduler \/ End_Assert \/ End_Return

SpecEnd == InitEnd /\ [][NextEnd]_vars

TrapFrames == {i \in 1 .. Len(stk) : stk[i].fn = "prvTaskExitError"}
TrapHalted(i) == stk[i].pc = "loop" \/ HookCalledBy(i)
HookFrames == {i \in 1 .. Len(stk) : stk[i].fn = "vAssertCalled"}
TickAbove(i) == \E j \in (i + 1) .. Len(stk) : stk[j].fn = "FreeRTOS_Tick_Handler"
\* the interrupt exit that restores a task context
SwitchStep ==
    /\ At("IRQ", "exit")
    /\ ulPortInterruptNesting - 1 = 0 /\ ulPortYieldRequired # pdFALSE
    /\ stk' = Below

\* C26: once the task function has returned into prvTaskExitError, the
\* function has disabled interrupts by the time it stops, nothing returns
\* from it, and from the moment it has stopped no interrupt handler runs
\* above it and no context is restored.
C26_TrapDisablesAndHalts ==
    [][(\A i \in TrapFrames :
           /\ i \in TrapFrames'
           /\ TrapHalted(i) =>
                 /\ cpsrI \/ ICCPMR # portUNMASK_VALUE
                 /\ \A j \in (i + 1) .. Len(stk) : stk[j].fn # "IRQ"
                 /\ ~SwitchStep)]_vars

\* C27: once vAssertCalled runs, called by an assertion of the port layer,
\* it never returns, no tick processing executes above it and no task
\* context is restored.
C27_HookHaltsSystem ==
    [][(\A i \in HookFrames :
           /\ i \in HookFrames'
           /\ ~TickAbove(i)
           /\ ~SwitchStep)]_vars

\* C30: every call of vPortEndScheduler, at every value of ulCriticalNesting,
\* invokes the assertion hook.
C30_EndAlwaysAsserts ==
    [][At("vPortEndScheduler", "assert") => (Top.fn = "vAssertCalled")']_vars

ClearMacroPcs == {"clr_disable", "clr_write", "clr_enable"}

\* C28: the counter starts at 9999 and nothing but the enter/exit primitives
\* changes it before the first context is restored, so in every sequence of
\* vPortEnterCritical / vPortExitCritical calls made from that value in
\* which the exits never outnumber the enters, ulCriticalNesting never
\* reaches zero (it never drops below its initial value) and no exit runs
\* the unmask macro: the unmask value is never written to the mask register.
C28_NoUnmaskBeforeStart ==
    (hist.d0 = InitialCriticalNesting /\ hist.nx <= hist.ne) =>
        /\ ulCriticalNesting # portNO_CRITICAL_NESTING
        /\ ulCriticalNesting >= InitialCriticalNesting
        /\ \A i \in 1 .. Len(stk) :
              /\ stk[i].pc \notin ClearMacroPcs
              /\ ~stk[i].w \/ stk[i].fn # "vPortExitCritical"

\* C28 witness: from 9999, enters and as many exits have all returned, the
\* counter is back at 9999 and the mask is still the raised one.
C28_Witness ==
    /\ hist.d0 = InitialCriticalNesting
    /\ hist.ne >= 2 /\ hist.nx = hist.ne
    /\ InContext /\ Top.open = <<>>
    /\ ulCriticalNesting = InitialCriticalNesting
    /\ ICCPMR = ulMaxAPIPriorityMask

\* C29: FreeRTOS_Tick_Handler begins only with the mask register at the
\* unmask value and ulCriticalNesting at 0, so its unconditional unmask
\* leaves the register as it was on entry and is never made while a task's
\* critical section is open.
C29_TickBeginsUnmasked ==
    \A k \in 1 .. Len(stk) :
        stk[k].fn = "FreeRTOS_Tick_Handler" =>
            /\ stk[k].m0 = portUNMASK_VALUE
            /\ stk[k].n0 = portNO_CRITICAL_NESTING
            /\ ~TaskInCritical
            /\ (stk[k].w /\ k = Len(stk)) =>
                  /\ ICCPMR = stk[k].m0
                  /\ ulCriticalNesting = portNO_CRITICAL_NESTING

\* C29 witness: the handler has written the unmask value and is about to
\* return to a task that it interrupted inside vPortExitCritical.
C29_Witness ==
    /\ At("FreeRTOS_Tick_Handler", "ret") /\ Top.w
    /\ Len(stk) = 4 /\ stk[2].fn = "vPortExitCritical"
    /\ ICCPMR = portUNMASK_VALUE

(***************************************************************************)
(* The from-interrupt mask pair, port.c 801-834, used as                   *)
(* portSET_INTERRUPT_MASK_FROM_ISR / portCLEAR_INTERRUPT_MASK_FROM_ISR:    *)
(* matched pairs of ulPortSetInterruptMask and vPortClearInterruptMask,    *)
(* nested in one another and in critical sections, with no interrupt in    *)
(* between.  Before the scheduler starts the counter is 9999 and the mask  *)
(* register holds what the boot code left (0 after reset); in a running    *)
(* task outside every section the counter is 0 and the mask is unmasked.   *)
(* hist.prior is the stack of mask values at the calls of the open pairs,  *)
(* hist.last the one of the pair being closed, hist.flag the CPU-core      *)
(* flag at the latest call made by the task or handler.                    *)
(***************************************************************************)
InitMask ==
    /\ \E d \in {portNO_CRITICAL_NESTING, InitialCriticalNesting} :
          /\ ulCriticalNesting = d
          /\ ICCPMR \in IF d = portNO_CRITICAL_NESTING THEN {portUNMASK_VALUE} ELSE StartMasks
    /\ ulPortYieldRequired = pdFALSE
    /\ cpsrI \in BOOLEAN
    /\ \E inHandler \in BOOLEAN :
          /\ ulPortInterruptNesting = IF inHandler THEN 1 ELSE 0
          /\ stk = IF inHandler THEN <<TaskFrame, HandlerFrame>> ELSE <<TaskFrame>>
    /\ hist = [m0 |-> ICCPMR, d0 |-> ulCriticalNesting, ne |-> 0, nx |-> 0,
               prior |-> <<>>, last |-> ICCPMR, flag |-> cpsrI]
    /\ AuxRunning

\* ulSaved = ulPortSetInterruptMask()
Mask_CallSet ==
    /\ InContext
    /\ Len(Top.open) < DepthLimit
    /\ stk' = Push(stk, NewFrame("ulPortSetInterruptMask", "disable", 0))
    /\ hist' = [hist EXCEPT !.prior = Append(@, ICCPMR), !.flag = cpsrI]
    /\ UNCHANGED <<ulCriticalNesting, ulPortYieldRequired, ulPortInterruptNesting, ICCPMR, cpsrI, aux>>

\* vPortClearInterruptMask( ulSaved ), ulSaved returned by the matching call
Mask_CallClear ==
    /\ InContext
    /\ Top.open # <<>> /\ Top.open[Len(Top.open)] \in {"m0", "m1"}
    /\ LET ulSaved == IF Top.open[Len(Top.open)] = "m1" THEN pdTRUE ELSE pdFALSE
       IN stk' = Push(SetTop([Top EXCEPT !.open = SubSeq(@, 1, Len(@) - 1)]),
                      NewFrame("vPortClearInterruptMask", "test", ulSaved))
    /\ hist' = [hist EXCEPT !.prior = SubSeq(@, 1, Len(@) - 1),
                            !.last = hist.prior[Len(hist.prior)], !.flag = cpsrI]
    /\ UNCHANGED <<ulCriticalNesting, ulPortYieldRequired, ulPortInterruptNesting, ICCPMR, cpsrI, aux>>

\* portENTER_CRITICAL(); the code between the two calls of a pair opens
\* further pairs, but no critical section
Mask_CallEnter ==
    /\ InContext
    /\ Len(Top.open) < DepthLimit
    /\ \A k \in DOMAIN Top.open : Top.open[k] = "crit"
    /\ stk' = Push(stk, NewFrame("vPortEnterCritical", "mask", 0))
    /\ hist' = [hist EXCEPT !.flag = cpsrI]
    /\ UNCHANGED <<ulCriticalNesting, ulPortYieldRequired, ulPortInterruptNesting, ICCPMR, cpsrI, aux>>

\* portEXIT_CRITICAL(), matching the latest enter, or with the counter at zero
Mask_CallExit ==
    /\ InContext
    /\ IF Top.open # <<>> /\ Top.open[Len(Top.open)] = "crit"
         THEN stk' = Push(SetTop([Top EXCEPT !.open = SubSeq(@, 1, Len(@) - 1)]),
                          NewFrame("vPortExitCritical", "test", 0))
         ELSE /\ ulCriticalNesting = portNO_CRITICAL_NESTING
              /\ stk' = Push(stk, NewFrame("vPortExitCritical", "test", 0))
    /\ hist' = [hist EXCEPT !.flag = cpsrI]
    /\ UNCHANGED <<ulCriticalNesting, ulPortYieldRequired, ulPortInterruptNesting, ICCPMR, cpsrI, aux>>

NextMask ==
    \/ PortStep \/ Assert_Loop
    \/ ClearMask_Test \/ ClearMask_Return
    \/ Mask_CallEnter \/ Mask_CallExit
    \/ Mask_CallSet \/ Mask_CallClear

SpecMask == InitMask /\ [][NextMask]_vars

SetMaskResult ==
    At("ulPortSetInterruptMask", "ret") =>
        /\ ICCPMR = ulMaxAPIPriorityMask
        /\ (Top.v = pdTRUE) <=> (Top.m0 = ulMaxAPIPriorityMask)
        /\ Top.v \in {pdTRUE, pdFALSE}

\* C31 as stated: for every prior value m of the mask register the pair
\* vPortClearInterruptMask( ulPortSetInterruptMask() ) leaves the register
\* equal to m, and ulPortSetInterruptMask returns true exactly when the mask
\* was already raised and leaves it raised.
C31_PairRestoresAnyMask ==
    /\ At("vPortClearInterruptMask", "ret") => ICCPMR = hist.last
    /\ SetMaskResult

\* C31: the pair leaves the register at the raised value when it held the
\* raised value before the pair and at the unmask value otherwise, so it
\* restores m exactly when m is one of these two values; this holds for
\* pairs nested in one another and in critical sections.
\* ulPortSetInterruptMask returns true exactly when the mask was already
\* raised and leaves it raised.
C31_PairRestoresKnownMasks ==
    /\ At("vPortClearInterruptMask", "ret") =>
          /\ ICCPMR = IF hist.last = ulMaxAPIPriorityMask
                        THEN ulMaxAPIPriorityMask ELSE portUNMASK_VALUE
          /\ hist.last \in {ulMaxAPIPriorityMask, portUNMASK_VALUE} => ICCPMR = hist.last
    /\ SetMaskResult

\* C31 witness: a pair nested inside another pair closes, and the mask is the
\* raised value it found.
C31_Witness ==
    /\ At("vPortClearInterruptMask", "ret")
    /\ Top.v = pdTRUE
    /\ hist.last = ulMaxAPIPriorityMask /\ ICCPMR = ulMaxAPIPriorityMask
    /\ stk[Len(stk) - 1].open # <<>> /\ stk[Len(stk) - 1].open[1] = "m0"

\* fn, called by the code of a task or of a handler, is about to return
Returned(fn) ==
    /\ At(fn, "ret")
    /\ stk[Len(stk) - 1].fn \in {"task", "IRQ"}

FlagKept(fn) == Returned(fn) => (cpsrI = hist.flag)

\* C32 as stated: vPortEnterCritical, vPortExitCritical,
\* ulPortSetInterruptMask and vPortClearInterruptMask return with the
\* CPU-core interrupt flag as it was when they were called.
C32_CoreFlagPreserved ==
    /\ FlagKept("vPortEnterCritical") /\ FlagKept("vPortExitCritical")
    /\ FlagKept("ulPortSetInterruptMask") /\ FlagKept("vPortClearInterruptMask")

\* C32: ulPortSetInterruptMask and vPortEnterCritical always return with
\* CPU-core interrupts enabled, whatever the flag was at the call;
\* vPortExitCritical and vPortClearInterruptMask return with them enabled
\* when they have written the unmask value, and with the flag as it was at
\* the call when they have not.
C32_CoreFlagEnabled ==
    /\ Returned("ulPortSetInterruptMask") => ~cpsrI
    /\ Returned("vPortEnterCritical") => ~cpsrI
    /\ \A fn \in {"vPortExitCritical", "vPortClearInterruptMask"} :
          Returned(fn) => (cpsrI = (IF Top.w THEN FALSE ELSE hist.flag))

\* C32 witness: a caller that had CPU-core interrupts disabled called
\* vPortEnterCritical, which returns with them enabled.
C32_Witness ==
    /\ Returned("vPortEnterCritical")
    /\ hist.flag /\ ~cpsrI

(***************************************************************************)
(* The priority-bit discovery of xPortStartScheduler, port.c 412-449, for  *)
(* every byte the first user priority register can read back.  The         *)
(* register keeps the bits the controller implements: the value it holds   *)
(* before the start has only such bits.  The processor executes the        *)
(* statements one after the other, so a step that is possible is taken.    *)
(* hist.reg is the register's value before the call.                       *)
(***************************************************************************)
ReadBacks == 0 .. portMAX_8_BIT_VALUE
OriginalPriorities == {0, 160, portMAX_8_BIT_VALUE}

InitProbe ==
    /\ ulCriticalNesting = InitialCriticalNesting
    /\ ulPortYieldRequired = pdFALSE
    /\ ulPortInterruptNesting = 0
    /\ ICCPMR = 0
    /\ cpsrI = FALSE
    /\ ulPortTaskHasFPUContext = pdFALSE
    /\ FPSCR = 0
    /\ mem = [a \in Addresses |->
                IF \E k \in 1 .. NumTasks : a \in StackRegion(k)
                  THEN SwitchMemory[a] ELSE MemoryFill]
    /\ cpu = ResetCpu
    /\ tcb = [k \in 1 .. NumTasks |-> SwitchTop(k) - 19]
    /\ pxCurrentTCB = 0
    /\ \E original \in OriginalPriorities :
          /\ boot = [BootIdle EXCEPT !.priorityReg = original]
          /\ hist = [m0 |-> 0, d0 |-> InitialCriticalNesting, ne |-> 0, nx |-> 0,
                     reg |-> original]
    /\ built = CreatedTasks(NumTasks)
    /\ HeapIdle
    /\ stk = <<[fn |-> "main", pc |-> "create", v |-> 0, w |-> FALSE, open |-> <<>>,
                log |-> <<>>, n0 |-> InitialCriticalNesting, m0 |-> 0, i0 |-> 0]>>

\* *pucFirstUserPriorityRegister = 0xff; ucMaxPriorityValue = the read back  420-423
Probe_ReadBack ==
    /\ InStart("prio_probe")
    /\ \E implemented \in ReadBacks :
          /\ BitAnd(boot.priorityReg, implemented) = boot.priorityReg
          /\ boot' = [boot EXCEPT
                        !.priorityReg = BitAnd(portMAX_8_BIT_VALUE, implemented),
                        !.ucMaxPriorityValue = BitAnd(portMAX_8_BIT_VALUE, implemented)]
    /\ StartGoto("prio_shift")
    /\ UNCHANGED <<cpsrI, mem>>

NextProbe ==
    \/ Main_StartScheduler
    \/ Start_SavePriority \/ Probe_ReadBack \/ Start_ShiftPriority
    \/ Start_AssertPriority \/ Start_RestorePriority
    \/ Start_ReadAPSR \/ Start_AssertMode \/ Start_TestMode \/ Start_TestBinaryPoint
    \/ Start_DisableIrq \/ Start_SetupTick \/ Start_Inspect \/ Start_Simulate
    \/ Start_TestWrite \/ Start_TestCheck \/ Start_DirectTest
    \/ Start_CallRestore \/ Start_Return
    \/ vPortRestoreTaskContext
    \/ Assert_Loop
    \/ Tick_Irq \/ TickStep \/ IrqExit

SpecProbe == InitProbe /\ [][NextProbe]_vars /\ WF_vars(NextProbe)

DiscoveryPcs == {"prio_save", "prio_probe", "prio_shift", "prio_assert", "prio_restore"}
StartAt(pc) == \E i \in StartFrames : stk[i].pc = pc
PastDiscovery ==
    \/ \E i \in StartFrames : stk[i].pc \notin DiscoveryPcs
    \/ boot.restore \/ boot.returned

\* C33: for every byte read back from the first user priority register, the
\* shift loop of the priority-bit discovery ends: once the value is read
\* back, startup reaches the comparison with portLOWEST_INTERRUPT_PRIORITY.
C33_DiscoveryTerminates == StartAt("prio_shift") ~> StartAt("prio_assert")

\* C34: whenever startup is past the priority-bit discovery, the first user
\* priority register holds the value it held before xPortStartScheduler was
\* called.
C34_PriorityRegisterRestored == PastDiscovery => boot.priorityReg = hist.reg

\* C34 witness: the register held 160, the discovery wrote 0xFF over it, and
\* the first task runs with 160 in the register again.
C34_Witness ==
    /\ hist.reg = 160 /\ boot.ucMaxPriorityValue = portLOWEST_INTERRUPT_PRIORITY
    /\ boot.restore /\ stk[1].fn = "task"
    /\ boot.priorityReg = 160

\* the word at address a when the tasks have been created, the memory outside
\* the stacks being filled with w
CreatedWord(a, w) ==
    IF \E k \in 1 .. NumTasks : a \in StackRegion(k) THEN SwitchMemory[a] ELSE w

\* C35: when xPortStartScheduler has called vPortRestoreTaskContext, every
\* word at or above the first task's saved stack pointer (its frame and the
\* memory above the frame) holds the value it held when pxPortInitialiseStack
\* returned.
C35_StartOnlyReadsTaskMemory ==
    boot.restore =>
        \E w \in BeyondContents :
            \A a \in Addresses :
                a >= tcb[pxCurrentTCB] => mem[a] = CreatedWord(a, w)

(***************************************************************************)
(* The allocator: heap_simple.c.  size_t is 32 bits wide; a size_t value   *)
(* is written as its two's-complement pattern (0xFFFFFFFF is -1), and the  *)
(* operators below compute on the patterns what the unsigned arithmetic    *)
(* of the code computes.  A pointer into ucHeap is the index of the byte,  *)
(* with a flag for NULL.  heapCall[t] is task t's activation of            *)
(* pvPortMalloc: its position, xWantedSize and pvReturn.  hist.sizes are   *)
(* the sizes the callers of the run ask for, hist.calls the calls that     *)
(* have returned (the size asked for, the pointer returned, and            *)
(* xPortGetFreeHeapSize() before and after), hist.freed the results given  *)
(* to vPortFree, hist.inside whether a task has been switched out between  *)
(* the entry and the return of its call.                                   *)
(***************************************************************************)
configTOTAL_HEAP_SIZE == 66560
MaxCalls == 3                    \* calls of pvPortMalloc in one run

\* a + b in uint32_t
Add32(a, b) ==
    IF a >= 0 /\ b >= 0
      THEN IF a > 2147483647 - b
             THEN (a - 2147483647 - 1) + (b - 2147483647 - 1)
             ELSE a + b
      ELSE IF a < 0 /\ b < 0
             THEN IF a < (0 - 2147483647 - 1) - b
                    THEN (a + 2147483647 + 1) + (b + 2147483647 + 1)
                    ELSE a + b
             ELSE a + b

\* a <= b in uint32_t
LessEq32(a, b) == IF (a >= 0) = (b >= 0) THEN a <= b ELSE a >= 0

\* if( xWantedSize & 3 ) xWantedSize = ( xWantedSize + 4 ) & ~3;
AlignedSize(xWantedSize) ==
    IF xWantedSize % 4 # 0
      THEN Add32(xWantedSize, 4) - (Add32(xWantedSize, 4) % 4)
      ELSE xWantedSize

\* return ( configTOTAL_HEAP_SIZE - xNextFreeByte )
xPortGetFreeHeapSize == Add32(configTOTAL_HEAP_SIZE, 0 - xNextFreeByte)

\* sizes asked for: zero, unaligned and aligned small sizes, the 100 bytes of
\* main.c, more than half of the heap, and sizes near the maximum of size_t
WantedSizes == {0, 1, 100, 40000, 0 - 1, 0 - 3, 0 - 4}
\* sizes tasks ask for while the scheduler runs
TaskSizes == {8, 100}

CallIdle == [pc |-> "idle", xWantedSize |-> 0, null |-> TRUE, pvReturn |-> 0,
             asked |-> 0, free0 |-> 0]

InitHeapWith(tasks, sizes) ==
    /\ ulCriticalNesting = portNO_CRITICAL_NESTING
    /\ ulPortYieldRequired = pdFALSE
    /\ ulPortInterruptNesting = 0
    /\ ICCPMR = portUNMASK_VALUE
    /\ cpsrI = FALSE
    /\ stk = <<TaskFrame>>
    /\ hist = [sizes |-> sizes, calls |-> <<>>, freed |-> {}, inside |-> FALSE]
    /\ ulPortTaskHasFPUContext = pdFALSE
    /\ FPSCR = 0
    /\ mem = <<>>
    /\ cpu = ResetCpu
    /\ tcb = <<>>
    /\ pxCurrentTCB = 1
    /\ boot = BootIdle
    /\ built = <<>>
    /\ xNextFreeByte = 0
    /\ heapCall = [t \in 1 .. tasks |-> CallIdle]

HeapStep(call, next) ==
    /\ heapCall' = [heapCall EXCEPT ![pxCurrentTCB] = call]
    /\ xNextFreeByte' = next
    /\ UNCHANGED <<ulCriticalNesting, ulPortYieldRequired, ulPortInterruptNesting,
                   ICCPMR, cpsrI, stk, ulPortTaskHasFPUContext, FPSCR, mem, cpu,
                   tcb, pxCurrentTCB, boot, built>>

Running == heapCall[pxCurrentTCB]
CallsMade == Len(hist.calls) + Cardinality({t \in DOMAIN heapCall : heapCall[t].pc # "idle"})

\* pvPortMalloc( xWantedSize ): void * pvReturn = NULL;
Malloc_Call ==
    /\ Running.pc = "idle"
    /\ CallsMade < MaxCalls
    /\ \E xWantedSize \in hist.sizes :
          HeapStep([pc |-> "align", xWantedSize |-> xWantedSize, null |-> TRUE,
                    pvReturn |-> 0, asked |-> xWantedSize,
                    free0 |-> xPortGetFreeHeapSize], xNextFreeByte)
    /\ hist' = hist

Malloc_Align ==
    /\ Running.pc = "align"
    /\ HeapStep([Running EXCEPT !.pc = "check",
                                !.xWantedSize = AlignedSize(Running.xWantedSize)],
                xNextFreeByte)
    /\ hist' = hist

\* if( xNextFreeByte + xWantedSize <= configTOTAL_HEAP_SIZE )
Malloc_Check ==
    /\ Running.pc = "check"
    /\ HeapStep([Running EXCEPT !.pc =
                    IF LessEq32(Add32(xNextFreeByte, Running.xWantedSize),
                                configTOTAL_HEAP_SIZE)
                      THEN "take" ELSE "ret"],
                xNextFreeByte)
    /\ hist' = hist

\* pvReturn = &ucHeap[ xNextFreeByte ];
Malloc_Take ==
    /\ Running.pc = "take"
    /\ HeapStep([Running EXCEPT !.pc = "bump", !.null = FALSE,
                                !.pvReturn = xNextFreeByte],
                xNextFreeByte)
    /\ hist' = hist

\* Faulty variant: the allocation does not advance xNextFreeByte.
Malloc_Bump_Missing ==
    /\ Running.pc = "bump"
    /\ HeapStep([Running EXCEPT !.pc = "ret"], xNextFreeByte)
    /\ hist' = hist

\* xNextFreeByte += xWantedSize;
Malloc_Bump ==
    /\ Running.pc = "bump"
    /\ HeapStep([Running EXCEPT !.pc = "ret"], Add32(xNextFreeByte, Running.xWantedSize))
    /\ hist' = hist

\* return pvReturn;
Malloc_Return ==
    /\ Running.pc = "ret"
    /\ HeapStep(CallIdle, xNextFreeByte)
    /\ hist' = [hist EXCEPT !.calls =
                   Append(@, [by |-> pxCurrentTCB, asked |-> Running.asked,
                              null |-> Running.null, pvReturn |-> Running.pvReturn,
                              free0 |-> Running.free0, free1 |-> xPortGetFreeHeapSize])]

\* vPortFree( pv ), pv a pointer pvPortMalloc returned: ( void ) pv;
vPortFree ==
    /\ Running.pc = "idle"
    /\ \E i \in (1 .. Len(hist.calls)) \ hist.freed :
          /\ ~hist.calls[i].null
          /\ hist' = [hist EXCEPT !.freed = @ \cup {i}]
    /\ HeapStep(Running, xNextFreeByte)

\* the tick interrupt is taken and its exit switches to another task:
\* pvPortMalloc raises no mask and disables no interrupt
Heap_Switch ==
    /\ Deliverable(TickPriority)
    /\ \E t \in DOMAIN heapCall \ {pxCurrentTCB} : pxCurrentTCB' = t
    /\ hist' = [hist EXCEPT !.inside = @ \/ Running.pc # "idle"]
    /\ UNCHANGED <<ulCriticalNesting, ulPortYieldRequired, ulPortInterruptNesting,
                   ICCPMR, cpsrI, stk, ulPortTaskHasFPUContext, FPSCR, mem, cpu,
                   tcb, boot, built, heap>>

NextHeap ==
    \/ Malloc_Call \/ Malloc_Align \/ Malloc_Check \/ Malloc_Take \/ Malloc_Bump
    \/ Malloc_Return \/ vPortFree

InitHeap == InitHeapWith(1, WantedSizes)
SpecHeap == InitHeap /\ [][NextHeap]_vars

InitHeapTasks == InitHeapWith(NumTasks, TaskSizes)
SpecHeapTasks == InitHeapTasks /\ [][NextHeap \/ Heap_Switch]_vars

Returned32 == {i \in 1 .. Len(hist.calls) : ~hist.calls[i].null}
\* the block of call c lies in ucHeap for the size asked for
InsideHeap(c) ==
    /\ c.pvReturn >= 0 /\ c.pvReturn <= configTOTAL_HEAP_SIZE
    /\ c.asked >= 0 /\ c.asked <= configTOTAL_HEAP_SIZE - c.pvReturn
\* the blocks of calls c and d, both inside the heap, share no byte
Disjoint(c, d) ==
    \/ c.asked = 0 \/ d.asked = 0
    \/ c.pvReturn + c.asked <= d.pvReturn
    \/ d.pvReturn + d.asked <= c.pvReturn
\* the size asked for, rounded up to a multiple of 4 (for sizes that fit)
RoundedUp(size) == ((size + 3) \div 4) * 4
Fits(c) ==
    /\ c.asked >= 0 /\ c.asked <= configTOTAL_HEAP_SIZE
    /\ RoundedUp(c.asked) <= c.free0

\* C36: for every sequence of pvPortMalloc calls, every non-null block lies
\* inside the heap buffer for the full size asked for, no two returned
\* blocks overlap, and xNextFreeByte never decreases and never exceeds
\* configTOTAL_HEAP_SIZE.
C36_BlocksInsideAndDisjoint ==
    /\ [](/\ \A i \in Returned32 : InsideHeap(hist.calls[i])
          /\ \A i, j \in Returned32 : i < j => Disjoint(hist.calls[i], hist.calls[j])
          /\ xNextFreeByte >= 0 /\ xNextFreeByte <= configTOTAL_HEAP_SIZE)
    /\ [][xNextFreeByte' >= xNextFreeByte]_vars

\* C37: a request that does not fit in the remaining heap returns NULL and
\* leaves xPortGetFreeHeapSize() as it was; a request that fits reduces it by
\* the size rounded up to a multiple of 4; vPortFree never changes it.
C37_FailureLeavesStateAlone ==
    /\ [](\A i \in 1 .. Len(hist.calls) :
            LET c == hist.calls[i]
            IN IF Fits(c)
                 THEN ~c.null /\ c.free1 = c.free0 - RoundedUp(c.asked)
                 ELSE c.null /\ c.free1 = c.free0)
    /\ [][hist'.freed # hist.freed => xPortGetFreeHeapSize' = xPortGetFreeHeapSize]_vars

====
